---- MODULE Spec2Model ----
(***************************************************************************)
(* A model of the concurrent XML-flattening and row-writing engine of      *)
(* theIRS (src/parser.go): ParseXMLs dispatches one goroutine per shard    *)
(* directory under a semaphore, each goroutine runs generateRows over the  *)
(* shard's files, and flatten walks the token stream of one document and   *)
(* appends rows to the shared csv.Writer under the rw mutex.               *)
(*                                                                         *)
(* Strings are modelled as sequences of atoms (an atom stands for one or   *)
(* more characters that the code never splits), so that concatenation is   *)
(* sequence concatenation.  A path prefix ".a.b" is the sequence of its    *)
(* tag names <<"a","b">>; a map key is <<"path", tags>> for a prefix and   *)
(* <<"bare", <<tag>>>> for a tag name used as a key without a leading dot. *)
(***************************************************************************)
EXTENDS Integers, Sequences, FiniteSets, TLC

(***************************************************************************)
(* Bounds of the model.                                                    *)
(***************************************************************************)
\* The semaphore capacity ranges over 1..MaxLimit (never above MAXPROCS).
MaxLimit == 2
\* The largest number of shard directories that run concurrently.
MaxShards == 2

\* The capacity the source gives the semaphore channel.
MAXPROCS == 12

VARIABLES
    root,       \* the entries os.ReadDir returns for ./data/990_zips/ (fixed input)
    limit,      \* capacity of the semaphore channel
    mpc,        \* position of ParseXMLs
    ret,        \* what ParseXMLs returned: "none" until it returns, then "nil" or "err"
    idx,        \* index of the root entry the dispatch loop is at
    semaphore,  \* number of slots taken in the semaphore channel
    wg,         \* the WaitGroup counter
    rwLocked,   \* TRUE while rw is held
    myInt,      \* the atomic progress counter
    werr,       \* the sticky error of the bufio.Writer under csv.Writer
    buf,        \* chunks written to the csv.Writer and not yet flushed
    out,        \* chunks flushed to resolve.csv
    wpc,        \* position of each worker goroutine (one per root entry)
    fidx,       \* index of the file generateRows is at
    pos,        \* number of tokens the worker's decoder has returned
    stack,      \* the activations of flatten, outermost first
    Record,     \* the worker's Xmler.Record
    row,        \* the row the worker is writing
    wi,         \* index of the next cell of row to write
    run,        \* 1 in the first run of the pipeline, 2 in a re-run on the same input
    prev,       \* the bag of data rows the first run left in resolve.csv
    processingErrors, \* the keys stored in the sync.Map processingErrors
    ppc,        \* position of each goroutine in the tail of flatten's EOF branch
    pleft,      \* number of documents each of these goroutines has still to complete
    plog,       \* the counts log.Printf("Processed %d files...") has printed
    hpc,        \* position of httpGetWithRetry
    attempt,    \* the loop variable of httpGetWithRetry
    lastErr,    \* lastErr of httpGetWithRetry
    responses,  \* what httpClient.Do has answered, one entry per request sent
    waits,      \* the delays time.After has let elapse, in seconds
    hret,       \* what httpGetWithRetry returned
    ctxDone,    \* TRUE once ctx is cancelled
    timerReady, \* TRUE once the channel of time.After(delay) can be received from
    urlOK,      \* FALSE when http.NewRequestWithContext rejects the url
    disk,       \* size of each file of the download directory, Absent if there is none
    dpc,        \* position of the download command that runs, "idle" if none does
    dop,        \* the download operation that runs
    dfile,      \* the file the download operation is at
    davail,     \* the file names getAvailableZipFiles found
    dmissing,   \* the file names findMissingFiles returned
    dqueue,     \* what is left of missingFiles in the loop of the sync
    dbody,      \* number of chunks of the response body
    dret,       \* how the last download operation ended
    earchive,   \* the entries of the archive that is extracted (fixed input)
    eimpl,      \* the function that extracts it: "unzipXMLs" or "extractZip"
    eidx,       \* index of the entry the extraction loop is at
    created,    \* the paths extraction has created, files and directories
    rejected,   \* the indexes of the entries the path check has rejected
    errored,    \* the indexes of the entries that ended in an error
    eret,       \* what the extraction returned: "none" until it returns
    cin,        \* the lines on os.Stdin when confirmation is called (fixed input)
    ctries,     \* the argument tries of confirmation (fixed input)
    cturn,      \* number of turns of the loop of confirmation begun: prompts printed
    cpc,        \* position of confirmation: "idle", "loop" or "returned"
    cret,       \* what confirmation returned: "none" until it returns
    zdirs,      \* per archive: whether its extraction directory exists, and its files
    zpc,        \* position of ExtractAllZips: "idle" when the command does not run
    zidx,       \* index of the archive the loop of ExtractAllZips is at
    zentry,     \* index of the entry the loop of extractZip is at
    zskipped,   \* the archives the running command has skipped as already extracted
    zruns       \* number of times the unzip command was started

progressVars == <<ppc, pleft, plog>>
httpVars == <<hpc, attempt, lastErr, responses, waits, hret, ctxDone, timerReady, urlOK>>
downloadVars == <<disk, dpc, dop, dfile, davail, dmissing, dqueue, dbody, dret>>
extractVars == <<earchive, eimpl, eidx, created, rejected, errored, eret>>
confirmVars == <<cin, ctries, cturn, cpc, cret>>
unzipVars == <<zdirs, zpc, zidx, zentry, zskipped, zruns>>
toolVars == <<confirmVars, unzipVars>>
ioVars == <<downloadVars, extractVars, toolVars>>

vars == <<root, limit, mpc, ret, idx, semaphore, wg, rwLocked, myInt, werr, buf, out,
          wpc, fidx, pos, stack, Record, row, wi, run, prev, processingErrors,
          progressVars, httpVars, ioVars>>

mainVars == <<mpc, ret, idx>>
workerVars == <<wpc, fidx, pos, stack, Record, row, wi>>
envVars == <<progressVars, httpVars, ioVars, run, prev, root, limit>>

(***************************************************************************)
(* Tokens and documents.                                                   *)
(***************************************************************************)
StartElement(n) == [k |-> "start", n |-> n, v |-> <<>>]
EndElement(n) == [k |-> "end", n |-> n, v |-> <<>>]
CharData(v) == [k |-> "chars", n |-> "", v |-> v]
ProcInst == [k |-> "procinst", n |-> "", v |-> <<>>]

\* <a>x</a>
DocLeaf == <<StartElement("a"), CharData(<<"x">>), EndElement("a")>>
\* <a><b>y</b></a>
DocNested == <<StartElement("a"), StartElement("b"), CharData(<<"y">>),
               EndElement("b"), EndElement("a")>>
\* <a>x      (unterminated tag)
DocUnterminated == <<StartElement("a"), CharData(<<"x">>)>>
\* <a></a>
DocEmpty == <<StartElement("a"), EndElement("a")>>
\* <a> </a>
DocBlank == <<StartElement("a"), CharData(<<" ">>), EndElement("a")>>
\* <a><b>x</b><b>y</b></a>
DocRepeat == <<StartElement("a"), StartElement("b"), CharData(<<"x">>), EndElement("b"),
               StartElement("b"), CharData(<<"y">>), EndElement("b"), EndElement("a")>>
\* <a><a>x</a></a>
DocSameName == <<StartElement("a"), StartElement("a"), CharData(<<"x">>),
                 EndElement("a"), EndElement("a")>>
\* <a><b>x</b> y </a>
DocMixed == <<StartElement("a"), StartElement("b"), CharData(<<"x">>), EndElement("b"),
              CharData(<<" ", "y", " ">>), EndElement("a")>>
\* <?xml?><Return><EIN>12-3456789</EIN><Filer><Name>ACME</Name></Filer></Return>
DocWorked == <<ProcInst, StartElement("Return"), StartElement("EIN"),
               CharData(<<"12-3456789">>), EndElement("EIN"), StartElement("Filer"),
               StartElement("Name"), CharData(<<"ACME">>), EndElement("Name"),
               EndElement("Filer"), EndElement("Return")>>

\* <a><b><c></c></b>y</a>
DocDeep == <<StartElement("a"), StartElement("b"), StartElement("c"), EndElement("c"),
             EndElement("b"), CharData(<<"y">>), EndElement("a")>>

File(tokens) == [isDir |-> FALSE, openable |-> TRUE, tokens |-> tokens]
UnopenableFile == [isDir |-> FALSE, openable |-> FALSE, tokens |-> <<>>]
SubDir == [isDir |-> TRUE, openable |-> TRUE, tokens |-> <<>>]

Dir(name, files) == [name |-> name, listable |-> TRUE, files |-> files]
UnlistableEntry(name) == [name |-> name, listable |-> FALSE, files |-> <<>>]


(***************************************************************************)
(* The inputs of a run: the listing of ./data/990_zips/.                   *)
(***************************************************************************)
Digit == <<"1", "2", "3", "4", "5", "6">>
DirName(i) == <<"d", Digit[i]>>
ZipName == <<"a", ".", "z", "i", "p">>

DocCatalogue == {DocLeaf, DocNested, DocUnterminated, DocEmpty, DocBlank, DocRepeat,
                 DocSameName, DocMixed, DocWorked, DocDeep}

\* n shard directories of one small document each, to run side by side.
ShardDoc(i) == IF i = 1 THEN DocNested ELSE IF i = 2 THEN DocLeaf ELSE DocEmpty
ConcurrentRoots ==
    {[i \in 1..n |-> Dir(DirName(i), <<File(ShardDoc(i))>>)] : n \in 2..MaxShards}

\* An archive, an entry that cannot be listed, and a directory with a nested
\* directory, a file that cannot be opened, a malformed and a well-formed document.
DiscoveryRoots ==
    {<<Dir(ZipName, <<File(DocLeaf)>>), UnlistableEntry(DirName(2)),
       Dir(DirName(3), <<SubDir, UnopenableFile, File(DocUnterminated), File(DocLeaf)>>)>>}

\* Pairs of documents that follow each other in one shard.
DocPairs == {<<DocUnterminated, DocLeaf>>, <<DocLeaf, DocNested>>, <<DocLeaf, DocEmpty>>,
             <<DocBlank, DocSameName>>, <<DocLeaf, DocLeaf>>, <<DocEmpty, DocEmpty>>}

\* One shard of one document of any shape of the catalogue, or of a pair.
SingleShardRoots ==
    {<<Dir(DirName(1), <<File(d)>>)>> : d \in DocCatalogue}
    \cup {<<Dir(DirName(1), <<File(p[1]), File(p[2])>>)>> : p \in DocPairs}

\* A shard of two documents beside a shard of one.
OrderRoots ==
    {<<Dir(DirName(1), <<File(DocEmpty), File(DocLeaf)>>),
       Dir(DirName(2), <<File(DocEmpty)>>)>>}

\* A directory whose name holds "zip" after another character, beside a plain one.
ZipsDirName == <<"u", "n", "z", "i", "p", "s">>
NamedRoots ==
    {<<Dir(ZipsDirName, <<File(DocEmpty)>>), Dir(DirName(2), <<File(DocEmpty)>>)>>}

Roots == ConcurrentRoots \cup DiscoveryRoots \cup SingleShardRoots \cup OrderRoots
         \cup NamedRoots

Min(a, b) == IF a < b THEN a ELSE b

(***************************************************************************)
(* Pure functions.                                                         *)
(***************************************************************************)
\* regexp.MustCompile(`.zip`).Match: any character followed by "zip", anywhere.
MatchDotZip(name) ==
    \E i \in 1..(Len(name) - 3) :
        name[i + 1] = "z" /\ name[i + 2] = "i" /\ name[i + 3] = "p"

\* strings.HasSuffix
HasSuffix(s, suffix) ==
    /\ Len(s) >= Len(suffix)
    /\ SubSeq(s, Len(s) - Len(suffix) + 1, Len(s)) = suffix

\* The test UnzipXMLs and the downloader use for an archive: the name ends in ".zip".
IsArchiveName(name) == HasSuffix(name, <<".", "z", "i", "p">>)

\* encoding/xml keeps the names of the open elements; an end tag pops one.
RECURSIVE OpenStack(_, _)
OpenStack(tokens, k) ==
    IF k = 0 THEN <<>>
    ELSE LET s == OpenStack(tokens, k - 1)
             t == tokens[k]
         IN  IF t.k = "start" THEN Append(s, t.n)
             ELSE IF t.k = "end" /\ s # <<>> THEN SubSeq(s, 1, Len(s) - 1)
             ELSE s

\* decoder.Token() after p tokens were returned: the next token, io.EOF at the end
\* of a balanced stream, a syntax error at an end tag that does not match the open
\* element or at the end of a stream with elements still open.  EOF and the error
\* are both returned again by every later call.
Token(tokens, p) ==
    LET open == OpenStack(tokens, p)
    IN  IF p >= Len(tokens)
        THEN IF open = <<>> THEN [k |-> "eof", n |-> "", v |-> <<>>]
             ELSE [k |-> "err", n |-> "", v |-> <<>>]
        ELSE LET t == tokens[p + 1]
             IN  IF t.k = "end" /\ (open = <<>> \/ open[Len(open)] # t.n)
                 THEN [k |-> "err", n |-> "", v |-> <<>>]
                 ELSE t

IsSpace(c) == c \in {" ", "\n", "\t", "\r"}

\* strings.TrimSpace
RECURSIVE TrimLeft(_)
TrimLeft(s) == IF s # <<>> /\ IsSpace(Head(s)) THEN TrimLeft(Tail(s)) ELSE s
RECURSIVE TrimRight(_)
TrimRight(s) ==
    IF s # <<>> /\ IsSpace(s[Len(s)]) THEN TrimRight(SubSeq(s, 1, Len(s) - 1)) ELSE s
TrimSpace(s) == TrimRight(TrimLeft(s))

\* The map key prefix (a dot before every tag name), and a tag name used as a key.
PathKey(tags) == <<"path", tags>>
BareKey(tag) == IF tag = "" THEN PathKey(<<>>) ELSE <<"bare", <<tag>>>>

EmptyRecord == [key \in {} |-> <<>>]
Put(rec, key, val) ==
    [x \in (DOMAIN rec) \cup {key} |-> IF x = key THEN val ELSE rec[x]]
Get(rec, key) == IF key \in DOMAIN rec THEN rec[key] ELSE <<>>

\* case xml.CharData of flatten
RecordCharData(rec, prefix, lastTag, text) ==
    LET val == TrimSpace(text)
        r1 == IF val # <<>>
              THEN Put(rec, PathKey(prefix), Append(Get(rec, PathKey(prefix)), val))
              ELSE rec
    IN  IF BareKey(lastTag) \in DOMAIN r1 THEN r1 ELSE Put(r1, BareKey(lastTag), <<>>)

\* strings.Builder over the values of one key
RECURSIVE Concat(_)
Concat(data) == IF data = <<>> THEN <<>> ELSE Head(data) \o Concat(Tail(data))

\* Mutant: a key of several values gives its first value only.
Cell_FirstValueOnly(data) == IF Len(data) >= 1 THEN data[1] ELSE <<>>

\* The cell flatten appends for one key of the record.
Cell(data) ==
    IF Len(data) > 1 THEN Concat(data)
    ELSE IF Len(data) = 1 THEN data[1]
    ELSE <<>>

\* The orders in which range over a Go map may visit its keys.
KeyOrders(rec) ==
    LET n == Cardinality(DOMAIN rec)
    IN  {p \in [1..n -> DOMAIN rec] : \A i, j \in 1..n : p[i] = p[j] => i = j}

\* The rows flatten may build from the record: one cell per key, in map order.
BuildRows(rec) ==
    {[i \in 1..Len(p) |-> Cell(rec[p[i]])] : p \in KeyOrders(rec)}

header == <<<<"FileName">>, <<"EIN">>, <<"OrganizationName">>, <<"TaxYear">>,
            <<"ReturnType">>>>

\* What csv.Writer.Write hands to the bufio.Writer for one row: its cells, then the
\* line end.  w and f name the goroutine and the file the row was built for
\* (0, 0 for the header).
CellChunk(w, f, v) == [k |-> "cell", w |-> w, f |-> f, v |-> v]
LineEnd(w, f) == [k |-> "nl", w |-> w, f |-> f, v |-> <<>>]
RowChunks(w, f, r) == [i \in 1..(Len(r) + 1) |->
                          IF i <= Len(r) THEN CellChunk(w, f, r[i]) ELSE LineEnd(w, f)]

Workers == DOMAIN root

\* Mutant: the goroutine reads the loop variable of ParseXMLs instead of its own
\* parameter, so it sees the entry the loop has moved on to.
Files_LoopVariable(w) == root[Min(idx, Len(root))].files

\* The listing go func(path, files) receives as its parameter: that of entry w.
Files(w) == root[w].files

\* Mutant: one Xmler is made before the loop and handed to every goroutine.
RecordOf_Shared(w) == Min(w, 1)

\* The map x.Record goroutine w works on: that of the Xmler it made itself.
RecordOf(w) == w

\* The lines of a chunk sequence that are complete: who wrote each, and its cells.
RECURSIVE SplitLines(_, _, _)
SplitLines(s, cur, acc) ==
    IF s = <<>> THEN acc
    ELSE IF Head(s).k = "nl"
    THEN SplitLines(Tail(s), <<>>, Append(acc, [w |-> Head(s).w, f |-> Head(s).f, cells |-> cur]))
    ELSE SplitLines(Tail(s), Append(cur, Head(s).v), acc)
Lines(s) == SplitLines(s, <<>>, <<>>)

\* The data rows of resolve.csv (every line but the header), as a bag of rows.
DataRows(s) == {i \in 1..Len(Lines(s)) : Lines(s)[i].w # 0}
RowBag(s) ==
    LET ls == Lines(s)
        rows == {ls[i].cells : i \in DataRows(s)}
    IN  [r \in rows |-> Cardinality({i \in DataRows(s) : ls[i].cells = r})]
EmptyBag == [r \in {} |-> 0]

\* The state in which ParseXMLs is entered, in a fresh process.
Fresh ==
    /\ mpc = "create"
    /\ ret = "none"
    /\ idx = 1
    /\ semaphore = 0
    /\ wg = 0
    /\ rwLocked = FALSE
    /\ myInt = 0
    /\ werr = FALSE
    /\ buf = <<>>
    /\ out = <<>>
    /\ wpc = [w \in Workers |-> "idle"]
    /\ fidx = [w \in Workers |-> 1]
    /\ pos = [w \in Workers |-> 0]
    /\ stack = [w \in Workers |-> <<>>]
    /\ Record = [w \in Workers |-> EmptyRecord]
    /\ row = [w \in Workers |-> <<>>]
    /\ wi = [w \in Workers |-> 1]
    /\ processingErrors = {}

\* The progress goroutines and httpGetWithRetry at rest: the values their variables
\* keep in the specifications of the pipeline.
ProgressIdle == ppc = <<>> /\ pleft = <<>> /\ plog = <<>>

HttpIdle ==
    /\ hpc = "idle"
    /\ attempt = 0
    /\ lastErr = "nil"
    /\ responses = <<>>
    /\ waits = <<>>
    /\ hret = "none"
    /\ ctxDone = FALSE
    /\ timerReady = FALSE
    /\ urlOK = TRUE

\* No download command and no extraction runs.
Absent == -1
DownloadIdle ==
    /\ disk = <<>>
    /\ dpc = "idle"
    /\ dop = "none"
    /\ dfile = "none"
    /\ davail = <<>>
    /\ dmissing = {}
    /\ dqueue = <<>>
    /\ dbody = 0
    /\ dret = "none"

ExtractIdle ==
    /\ earchive = <<>>
    /\ eimpl = "none"
    /\ eidx = 1
    /\ created = {}
    /\ rejected = {}
    /\ errored = {}
    /\ eret = "none"

\* confirmation is not called.
ConfirmIdle ==
    /\ cin = <<>>
    /\ ctries = 0
    /\ cturn = 0
    /\ cpc = "idle"
    /\ cret = "none"

\* The unzip command does not run and nothing was extracted.
UnzipIdle ==
    /\ zdirs = <<>>
    /\ zpc = "idle"
    /\ zidx = 1
    /\ zentry = 1
    /\ zskipped = {}
    /\ zruns = 0

ToolsIdle == ConfirmIdle /\ UnzipIdle

Init ==
    /\ ProgressIdle
    /\ HttpIdle
    /\ DownloadIdle
    /\ ExtractIdle
    /\ ToolsIdle
    /\ root \in Roots
    /\ limit \in 1..Min(MaxLimit, MAXPROCS)
    /\ run = 1
    /\ prev = EmptyBag
    /\ Fresh

\* The inputs on which a run and a re-run are compared.
RerunRoots ==
    {<<Dir(DirName(1), <<File(d)>>)>> : d \in {DocLeaf, DocNested, DocEmpty}}
    \cup DiscoveryRoots

InitRerun ==
    /\ ProgressIdle
    /\ HttpIdle
    /\ DownloadIdle
    /\ ExtractIdle
    /\ ToolsIdle
    /\ root \in RerunRoots
    /\ limit \in 1..Min(MaxLimit, MAXPROCS)
    /\ run = 1
    /\ prev = EmptyBag
    /\ Fresh

(***************************************************************************)
(* ParseXMLs: the initiating sequence and the dispatch loop.               *)
(***************************************************************************)
Return(r) == mpc' = "returned" /\ ret' = r

\* os.Create("resolve.csv")
CreateSheet ==
    /\ mpc = "create"
    /\ \/ mpc' = "header" /\ ret' = ret
       \/ Return("err")
    /\ UNCHANGED envVars
    /\ UNCHANGED <<processingErrors, idx, semaphore, wg, rwLocked, myInt, werr, buf, out>>
    /\ UNCHANGED workerVars

\* Mutant: ParseXMLs goes on to list the root without writing the header.
WriteHeader_Skipped ==
    /\ mpc = "header"
    /\ mpc' = "readdir"
    /\ UNCHANGED envVars
    /\ UNCHANGED <<processingErrors, ret, idx, semaphore, wg, rwLocked, myInt, werr, buf, out>>
    /\ UNCHANGED workerVars

\* writer.Write(header); writer.Flush(); writer.Error()
WriteHeader ==
    /\ mpc = "header"
    /\ \/ /\ out' = out \o RowChunks(0, 0, header)
          /\ mpc' = "readdir"
          /\ UNCHANGED <<ret, werr, buf>>
       \/ /\ werr' = TRUE
          /\ buf' = buf \o RowChunks(0, 0, header)
          /\ Return("err")
          /\ out' = out
    /\ UNCHANGED envVars
    /\ UNCHANGED <<processingErrors, idx, semaphore, wg, rwLocked, myInt>>
    /\ UNCHANGED workerVars

\* os.ReadDir(pathway)
ReadRoot ==
    /\ mpc = "readdir"
    /\ \/ mpc' = "loop" /\ ret' = ret
       \/ Return("err")
    /\ UNCHANGED envVars
    /\ UNCHANGED <<processingErrors, idx, semaphore, wg, rwLocked, myInt, werr, buf, out>>
    /\ UNCHANGED workerVars

\* Mutant: a shard whose listing fails ends the loop over the root entries.
OnListingError_Breaks == mpc' = "wait" /\ idx' = Len(root) + 1 /\ wg' = wg

\* os.ReadDir(dirPath) fails: log.Printf and continue.
OnListingError == mpc' = mpc /\ idx' = idx + 1 /\ wg' = wg

\* One iteration of the loop over the root entries, up to wg.Add(1).
Dispatch ==
    /\ mpc = "loop"
    /\ IF idx > Len(root)
       THEN mpc' = "wait" /\ UNCHANGED <<idx, wg>>
       ELSE IF MatchDotZip(root[idx].name)
       THEN mpc' = mpc /\ idx' = idx + 1 /\ wg' = wg
       ELSE IF ~root[idx].listable
       THEN OnListingError
       ELSE mpc' = "acquire" /\ idx' = idx /\ wg' = wg + 1
    /\ UNCHANGED envVars
    /\ UNCHANGED <<processingErrors, ret, semaphore, rwLocked, myInt, werr, buf, out>>
    /\ UNCHANGED workerVars

\* Mutant: the send on the semaphore channel never blocks.
SemaphoreHasSlot_NeverBlocks == TRUE

\* semaphore <- struct{}{} can proceed
SemaphoreHasSlot == semaphore < limit

\* semaphore <- struct{}{}; go func(path, files) {...}(dirPath, zReader): the new
\* goroutine makes its Xmler and enters generateRows.
StartWorker ==
    /\ mpc = "acquire"
    /\ SemaphoreHasSlot
    /\ semaphore' = semaphore + 1
    /\ wpc' = [wpc EXCEPT ![idx] = "files"]
    /\ Record' = [Record EXCEPT ![RecordOf(idx)] = EmptyRecord]
    /\ idx' = idx + 1
    /\ mpc' = "loop"
    /\ UNCHANGED envVars
    /\ UNCHANGED <<processingErrors, ret, wg, rwLocked, myInt, werr, buf, out>>
    /\ UNCHANGED <<fidx, pos, stack, row, wi>>

\* Mutant: wg.Wait() returns without waiting.
WaitGroupIsZero_NoWait == TRUE

\* wg.Wait() can return
WaitGroupIsZero == wg = 0

\* wg.Wait()
Wait ==
    /\ mpc = "wait"
    /\ WaitGroupIsZero
    /\ mpc' = "flush"
    /\ UNCHANGED envVars
    /\ UNCHANGED <<processingErrors, ret, idx, semaphore, wg, rwLocked, myInt, werr, buf, out>>
    /\ UNCHANGED workerVars

\* writer.Flush(); writer.Error(); return
FinalFlush ==
    /\ mpc = "flush"
    /\ IF werr
       THEN Return("err") /\ UNCHANGED <<werr, buf, out>>
       ELSE IF buf = <<>>
       THEN Return("nil") /\ UNCHANGED <<werr, buf, out>>
       ELSE \/ Return("nil") /\ out' = out \o buf /\ buf' = <<>> /\ werr' = werr
            \/ Return("err") /\ werr' = TRUE /\ UNCHANGED <<buf, out>>
    /\ UNCHANGED envVars
    /\ UNCHANGED <<processingErrors, idx, semaphore, wg, rwLocked, myInt>>
    /\ UNCHANGED workerVars

(***************************************************************************)
(* generateRows and flatten, run by the goroutine of root entry w.         *)
(***************************************************************************)
Frame(element, prefix) == [element |-> element, prefix |-> prefix, lastTag |-> ""]
Top(w) == stack[w][Len(stack[w])]
Below(w) == SubSeq(stack[w], 1, Len(stack[w]) - 1)
\* Mutant: the loop of generateRows walks the listing from its last entry.
FileAt_Backwards(w, i) == Len(Files(w)) + 1 - i

\* for _, file := range files: the entry of the listing that turn i of the loop is at.
FileAt(w, i) == i

CurrentFile(w) == Files(w)[FileAt(w, fidx[w])]

Doc(w) == CurrentFile(w).tokens

\* What generateRows returns to the goroutine when its loop is over: always nil.
GenerateRowsReturn(w) == "nil"

\* The loop of generateRows at one file: skip a directory or a file that cannot be
\* opened, else xml.NewDecoder(f) and x.flatten(xml.StartElement{}, decoder, "").
\* After the last file generateRows returns nil.
NextFile(w) ==
    /\ wpc[w] = "files"
    /\ IF fidx[w] > Len(Files(w))
       THEN /\ wpc' = [wpc EXCEPT ![w] = "release"]
            /\ processingErrors' = IF GenerateRowsReturn(w) # "nil"
                                   THEN processingErrors \cup {w}
                                   ELSE processingErrors
            /\ UNCHANGED <<fidx, pos, stack>>
       ELSE IF CurrentFile(w).isDir \/ ~CurrentFile(w).openable
       THEN /\ fidx' = [fidx EXCEPT ![w] = @ + 1]
            /\ UNCHANGED <<wpc, pos, stack, processingErrors>>
       ELSE /\ wpc' = [wpc EXCEPT ![w] = "token"]
            /\ pos' = [pos EXCEPT ![w] = 0]
            /\ stack' = [stack EXCEPT ![w] = <<Frame("", <<>>)>>]
            /\ UNCHANGED <<fidx, processingErrors>>
    /\ UNCHANGED envVars
    /\ UNCHANGED <<semaphore, wg, rwLocked, myInt, werr, buf, out>>
    /\ UNCHANGED <<Record, row, wi>>
    /\ UNCHANGED mainVars

\* Mutant: generateRows returns the error of flatten instead of going on.
AfterFlattenError_Returns(w) ==
    /\ fidx' = fidx
    /\ wpc' = [wpc EXCEPT ![w] = "release"]

\* What generateRows does when flatten returns an error: close, log, continue.
AfterFlattenError(w) ==
    /\ fidx' = [fidx EXCEPT ![w] = @ + 1]
    /\ wpc' = [wpc EXCEPT ![w] = "files"]

\* flatten returns err: every activation above returns it, up to generateRows.
ReturnError(w) ==
    /\ stack' = [stack EXCEPT ![w] = <<>>]
    /\ AfterFlattenError(w)

\* The innermost activation of flatten returns nil: to the activation that called
\* it, which goes on with its loop, or to generateRows, which goes to the next file.
ReturnNil(w) ==
    /\ stack' = [stack EXCEPT ![w] = Below(w)]
    /\ IF Len(stack[w]) = 1
       THEN fidx' = [fidx EXCEPT ![w] = @ + 1] /\ wpc' = [wpc EXCEPT ![w] = "files"]
       ELSE fidx' = fidx /\ wpc' = [wpc EXCEPT ![w] = "token"]

\* One turn of the loop of flatten for a token other than io.EOF.
FlattenToken(w) ==
    /\ wpc[w] = "token"
    /\ LET t == Token(Doc(w), pos[w])
           top == Top(w)
       IN  /\ t.k # "eof"
           /\ CASE t.k = "err" ->
                    /\ ReturnError(w)
                    /\ UNCHANGED <<pos, Record>>
                [] t.k = "start" ->
                    /\ stack' = [stack EXCEPT ![w] =
                          Below(w) \o <<[top EXCEPT !.element = t.n, !.lastTag = t.n],
                                        Frame(t.n, Append(top.prefix, t.n))>>]
                    /\ pos' = [pos EXCEPT ![w] = @ + 1]
                    /\ UNCHANGED <<wpc, fidx, Record>>
                [] t.k = "chars" ->
                    /\ Record' = [Record EXCEPT ![RecordOf(w)] =
                          RecordCharData(@, top.prefix, top.lastTag, t.v)]
                    /\ pos' = [pos EXCEPT ![w] = @ + 1]
                    /\ UNCHANGED <<wpc, fidx, stack>>
                [] t.k = "end" ->
                    /\ pos' = [pos EXCEPT ![w] = @ + 1]
                    /\ IF t.n = top.element
                       THEN ReturnNil(w)
                       ELSE UNCHANGED <<wpc, fidx, stack>>
                    /\ UNCHANGED Record
                [] OTHER ->
                    /\ pos' = [pos EXCEPT ![w] = @ + 1]
                    /\ UNCHANGED <<wpc, fidx, stack, Record>>
    /\ UNCHANGED envVars
    /\ UNCHANGED <<processingErrors, semaphore, wg, rwLocked, myInt, werr, buf, out>>
    /\ UNCHANGED <<row, wi>>
    /\ UNCHANGED mainVars

\* Mutant: rw.Lock() does not exclude.
RwCanLock_NoExclusion == TRUE

\* rw.Lock() can proceed
RwCanLock == ~rwLocked

\* decoder.Token() returns io.EOF: rw.Lock() and the row is built from x.Record.
LockAndBuildRow(w) ==
    /\ wpc[w] = "token"
    /\ Token(Doc(w), pos[w]).k = "eof"
    /\ RwCanLock
    /\ rwLocked' = TRUE
    /\ \E r \in BuildRows(Record[RecordOf(w)]) : row' = [row EXCEPT ![w] = r]
    /\ wi' = [wi EXCEPT ![w] = 1]
    /\ wpc' = [wpc EXCEPT ![w] = "write"]
    /\ UNCHANGED envVars
    /\ UNCHANGED <<processingErrors, semaphore, wg, myInt, werr, buf, out>>
    /\ UNCHANGED <<fidx, pos, stack, Record>>
    /\ UNCHANGED mainVars

\* Mutant: the error path of the write returns without rw.Unlock().
WriteRow_KeepsLockOnError(w) ==
    /\ wpc[w] = "write"
    /\ IF werr
       THEN /\ rwLocked' = rwLocked
            /\ stack' = [stack EXCEPT ![w] = <<>>]
            /\ fidx' = [fidx EXCEPT ![w] = @ + 1]
            /\ wpc' = [wpc EXCEPT ![w] = "files"]
            /\ UNCHANGED <<buf, wi>>
       ELSE /\ buf' = Append(buf, RowChunks(w, FileAt(w, fidx[w]), row[w])[wi[w]])
            /\ wi' = [wi EXCEPT ![w] = @ + 1]
            /\ wpc' = [wpc EXCEPT ![w] = IF wi[w] > Len(row[w]) THEN "flush" ELSE "write"]
            /\ UNCHANGED <<rwLocked, fidx, stack>>
    /\ UNCHANGED envVars
    /\ UNCHANGED <<processingErrors, semaphore, wg, myInt, werr, out>>
    /\ UNCHANGED <<pos, Record, row>>
    /\ UNCHANGED mainVars

\* x.Writer.Write(row), one field (or the line end) at a time; on an error
\* rw.Unlock() and return it.
WriteRow(w) ==
    /\ wpc[w] = "write"
    /\ IF werr
       THEN /\ rwLocked' = FALSE
            /\ ReturnError(w)
            /\ UNCHANGED <<buf, wi>>
       ELSE /\ buf' = Append(buf, RowChunks(w, FileAt(w, fidx[w]), row[w])[wi[w]])
            /\ wi' = [wi EXCEPT ![w] = @ + 1]
            /\ wpc' = [wpc EXCEPT ![w] = IF wi[w] > Len(row[w]) THEN "flush" ELSE "write"]
            /\ UNCHANGED <<rwLocked, fidx, stack>>
    /\ UNCHANGED envVars
    /\ UNCHANGED <<processingErrors, semaphore, wg, myInt, werr, out>>
    /\ UNCHANGED <<pos, Record, row>>
    /\ UNCHANGED mainVars

\* Mutant: the error path of the flush returns without rw.Unlock().
FlushRow_KeepsLockOnError(w) ==
    /\ wpc[w] = "flush"
    /\ \/ /\ ~werr
          /\ out' = out \o buf
          /\ buf' = <<>>
          /\ wpc' = [wpc EXCEPT ![w] = "unlock"]
          /\ UNCHANGED <<werr, rwLocked, fidx, stack>>
       \/ /\ werr' = TRUE
          /\ rwLocked' = rwLocked
          /\ stack' = [stack EXCEPT ![w] = <<>>]
          /\ fidx' = [fidx EXCEPT ![w] = @ + 1]
          /\ wpc' = [wpc EXCEPT ![w] = "files"]
          /\ UNCHANGED <<buf, out>>
    /\ UNCHANGED envVars
    /\ UNCHANGED <<processingErrors, semaphore, wg, myInt>>
    /\ UNCHANGED <<pos, Record, row, wi>>
    /\ UNCHANGED mainVars

\* Mutant: the row is left in the buffer of the writer: no x.Writer.Flush().
FlushRow_NotFlushed(w) ==
    /\ wpc[w] = "flush"
    /\ wpc' = [wpc EXCEPT ![w] = "unlock"]
    /\ UNCHANGED envVars
    /\ UNCHANGED <<processingErrors, semaphore, wg, myInt, werr, rwLocked, buf, out>>
    /\ UNCHANGED <<fidx, pos, stack, Record, row, wi>>
    /\ UNCHANGED mainVars

\* x.Writer.Flush(); x.Writer.Error(); on an error rw.Unlock() and return it.
FlushRow(w) ==
    /\ wpc[w] = "flush"
    /\ \/ /\ ~werr
          /\ out' = out \o buf
          /\ buf' = <<>>
          /\ wpc' = [wpc EXCEPT ![w] = "unlock"]
          /\ UNCHANGED <<werr, rwLocked, fidx, stack>>
       \/ /\ werr' = TRUE
          /\ rwLocked' = FALSE
          /\ ReturnError(w)
          /\ UNCHANGED <<buf, out>>
    /\ UNCHANGED envVars
    /\ UNCHANGED <<processingErrors, semaphore, wg, myInt>>
    /\ UNCHANGED <<pos, Record, row, wi>>
    /\ UNCHANGED mainVars

\* rw.Unlock() after a row was written and flushed
Unlock(w) ==
    /\ wpc[w] = "unlock"
    /\ rwLocked' = FALSE
    /\ wpc' = [wpc EXCEPT ![w] = "add"]
    /\ UNCHANGED envVars
    /\ UNCHANGED <<processingErrors, semaphore, wg, myInt, werr, buf, out>>
    /\ UNCHANGED <<fidx, pos, stack, Record, row, wi>>
    /\ UNCHANGED mainVars

\* Mutant: flatten returns nil without myInt.Add(1).
CountAndReturn_NoAdd(w) ==
    /\ wpc[w] = "add"
    /\ myInt' = myInt
    /\ ReturnNil(w)
    /\ UNCHANGED envVars
    /\ UNCHANGED <<processingErrors, semaphore, wg, rwLocked, werr, buf, out>>
    /\ UNCHANGED <<pos, Record, row, wi>>
    /\ UNCHANGED mainVars

\* myInt.Add(1); return nil.  The test myInt.Load()%1000 == 0 that follows the Add
\* is false at every count the inputs of the pipeline reach; its steps are those of
\* MyIntAdd, MyIntLoad and LogProgress below.
CountAndReturn(w) ==
    /\ wpc[w] = "add"
    /\ myInt' = myInt + 1
    /\ ReturnNil(w)
    /\ UNCHANGED envVars
    /\ UNCHANGED <<processingErrors, semaphore, wg, rwLocked, werr, buf, out>>
    /\ UNCHANGED <<pos, Record, row, wi>>
    /\ UNCHANGED mainVars

\* defer func() { <-semaphore }()
ReleaseSemaphore(w) ==
    /\ wpc[w] = "release"
    /\ semaphore' = semaphore - 1
    /\ wpc' = [wpc EXCEPT ![w] = "wgdone"]
    /\ UNCHANGED envVars
    /\ UNCHANGED <<processingErrors, wg, rwLocked, myInt, werr, buf, out>>
    /\ UNCHANGED <<fidx, pos, stack, Record, row, wi>>
    /\ UNCHANGED mainVars

\* defer wg.Done(), and the goroutine ends
Done(w) ==
    /\ wpc[w] = "wgdone"
    /\ wg' = wg - 1
    /\ wpc' = [wpc EXCEPT ![w] = "exited"]
    /\ UNCHANGED envVars
    /\ UNCHANGED <<processingErrors, semaphore, rwLocked, myInt, werr, buf, out>>
    /\ UNCHANGED <<fidx, pos, stack, Record, row, wi>>
    /\ UNCHANGED mainVars

\* The pipeline is run again, in a new process, on the unchanged input tree, after a
\* run in which no write failed; os.Create truncates resolve.csv.
Rerun ==
    /\ run = 1
    /\ mpc = "returned"
    /\ ret = "nil"
    /\ UNCHANGED <<root, limit, progressVars, httpVars, ioVars>>
    /\ processingErrors' = {}
    /\ run' = 2
    /\ prev' = RowBag(out)
    /\ mpc' = "create"
    /\ ret' = "none"
    /\ idx' = 1
    /\ semaphore' = 0
    /\ wg' = 0
    /\ rwLocked' = FALSE
    /\ myInt' = 0
    /\ werr' = FALSE
    /\ buf' = <<>>
    /\ out' = <<>>
    /\ wpc' = [w \in Workers |-> "idle"]
    /\ fidx' = [w \in Workers |-> 1]
    /\ pos' = [w \in Workers |-> 0]
    /\ stack' = [w \in Workers |-> <<>>]
    /\ Record' = [w \in Workers |-> EmptyRecord]
    /\ row' = [w \in Workers |-> <<>>]
    /\ wi' = [w \in Workers |-> 1]

Main == CreateSheet \/ WriteHeader \/ ReadRoot \/ Dispatch \/ StartWorker \/ Wait
        \/ FinalFlush

Worker(w) == NextFile(w) \/ FlattenToken(w) \/ LockAndBuildRow(w) \/ WriteRow(w)
             \/ FlushRow(w) \/ Unlock(w) \/ CountAndReturn(w) \/ ReleaseSemaphore(w)
             \/ Done(w)

Next ==
    \/ CreateSheet
    \/ WriteHeader
    \/ ReadRoot
    \/ Dispatch
    \/ StartWorker
    \/ Wait
    \/ FinalFlush
    \/ \E w \in Workers : NextFile(w)
    \/ \E w \in Workers : FlattenToken(w)
    \/ \E w \in Workers : LockAndBuildRow(w)
    \/ \E w \in Workers : WriteRow(w)
    \/ \E w \in Workers : FlushRow(w)
    \/ \E w \in Workers : Unlock(w)
    \/ \E w \in Workers : CountAndReturn(w)
    \/ \E w \in Workers : ReleaseSemaphore(w)
    \/ \E w \in Workers : Done(w)

Spec == Init /\ [][Next]_vars

\* Every step of the run is a step of a goroutine that can run, and the Go scheduler
\* does not leave all runnable goroutines waiting for ever.
FairSpec == Spec /\ WF_vars(Next)

\* A run followed by a re-run on the same input.
SpecRerun == InitRerun /\ [][Next \/ Rerun]_vars


(***************************************************************************)
(* Derived notions used by the properties.                                 *)
(***************************************************************************)
\* The goroutine of entry w is between the start of Writer.Write for a row and the
\* rw.Unlock() that follows its flush.
InWriteSection(w) == wpc[w] \in {"write", "flush", "unlock"}

\* Goroutines started and not yet ended.
Alive == {w \in Workers : wpc[w] \notin {"idle", "exited"}}

\* Goroutines that hold a slot of the semaphore channel.
HoldingSlot == {w \in Workers : wpc[w] \notin {"idle", "wgdone", "exited"}}

\* How the decoder ends on a token stream: "eof" or "err".
RECURSIVE StreamEnd(_, _)
StreamEnd(tokens, p) ==
    IF Token(tokens, p).k \in {"eof", "err"} THEN Token(tokens, p).k
    ELSE StreamEnd(tokens, p + 1)

\* File f of shard w is a document that fails: it cannot be opened or does not parse.
FailingDoc(w, f) ==
    /\ ~Files(w)[f].isDir
    /\ ~Files(w)[f].openable \/ StreamEnd(Files(w)[f].tokens, 0) = "err"

\* File f of shard w is a document that opens and parses.
GoodDoc(w, f) ==
    /\ ~Files(w)[f].isDir
    /\ Files(w)[f].openable
    /\ StreamEnd(Files(w)[f].tokens, 0) = "eof"

\* Number of complete lines of the chunk sequence s written for file f of shard w.
RowCount(s, w, f) ==
    Cardinality({i \in 1..Len(s) : s[i].k = "nl" /\ s[i].w = w /\ s[i].f = f})

\* generateRows of shard w is past file f.
PastFile(w, f) == wpc[w] # "idle" /\ f < fidx[w]

(***************************************************************************)
(* Properties.                                                             *)
(***************************************************************************)

\* C1: appends to the sink are mutually exclusive: at most one goroutine is between
\* the start of Writer.Write for a row and the unlock after its flush, and in the
\* bytes handed to the sink every cell is followed by a cell or the line end of the
\* same row, so no row is split or interleaved with another.
C1_SinkMutualExclusion ==
    /\ Cardinality({w \in Workers : InWriteSection(w)}) <= 1
    /\ LET s == out \o buf
       IN  \A i \in 1..Len(s) :
              s[i].k = "cell" =>
                  /\ i < Len(s) => s[i + 1].w = s[i].w /\ s[i + 1].f = s[i].f
                  /\ i = Len(s) => \E w \in Workers : InWriteSection(w) /\ w = s[i].w

\* C1 witness: one goroutine has written part of a row while another one has reached
\* the end of its document and waits for the lock.
C1_Witness ==
    \E w1, w2 \in Workers :
        /\ w1 # w2
        /\ wpc[w1] = "write" /\ wi[w1] > 1 /\ wi[w1] <= Len(row[w1])
        /\ wpc[w2] = "token" /\ Token(Doc(w2), pos[w2]).k = "eof"

\* C2 (as claimed): a document flattened without error has exactly one row in the
\* sink.
C2_ExactlyOneRowPerDocument ==
    \A w \in Workers : \A f \in 1..Len(Files(w)) :
        (PastFile(w, f) /\ GoodDoc(w, f) /\ ~werr) => RowCount(out, w, f) = 1

\* C3 (as claimed): every data row in the sink has as many cells as the header.
C3_RowWidthIsHeaderWidth ==
    \A i \in DataRows(out) : Len(Lines(out)[i].cells) = Len(header)

\* C4 (as claimed): the goroutines started and not yet ended are at most the limit.
C4_AliveWithinLimit == Cardinality(Alive) <= limit

\* C4 (amended): the goroutines that hold a semaphore slot, that is, started and not
\* yet past the deferred release that follows generateRows, are at most the limit,
\* and the semaphore counts exactly those.
C4_SlotHoldersWithinLimit ==
    /\ Cardinality(HoldingSlot) <= limit
    /\ semaphore = Cardinality(HoldingSlot)

\* C4 witness: the limit is reached and the dispatcher waits for a slot.
C4_Witness ==
    /\ mpc = "acquire"
    /\ Cardinality(HoldingSlot) = limit
    /\ \E w \in Workers : wpc[w] = "token"

\* C5: once wg.Wait() has returned (the final flush, the return), every goroutine that
\* was started has ended: none is left to append to the sink or touch its record.
C5_ReturnsAfterAllWorkers ==
    mpc \in {"flush", "returned"} => \A w \in Workers : wpc[w] \in {"idle", "exited"}

\* C5 witness: ParseXMLs is at its final flush after two goroutines wrote rows.
C5_Witness ==
    /\ mpc = "flush"
    /\ Cardinality({w \in Workers : wpc[w] = "exited"}) >= 2
    /\ myInt >= 2

\* C6: under fair scheduling ParseXMLs eventually returns.
C6_Terminates == <>(mpc = "returned")

\* C6 witness: ParseXMLs has returned after a run over several shards in which a
\* document failed to parse or a sink write failed.
C6_Witness ==
    /\ mpc = "returned"
    /\ Cardinality({w \in Workers : wpc[w] = "exited"}) >= 2
    /\ werr

\* The row the worked example of the specification expects under the header
\* FileName, EIN, OrganizationName, TaxYear, ReturnType.
WorkedRow == <<<<>>, <<"12-3456789">>, <<"ACME">>, <<>>, <<>>>>

\* C7 (as claimed): every row emitted for the worked example holds the EIN in the EIN
\* column, the name in the OrganizationName column and nothing in the other columns.
C7_CellsUnderTheirColumns ==
    \A i \in DataRows(out) :
        LET l == Lines(out)[i]
        IN  Files(l.w)[l.f].tokens = DocWorked => l.cells = WorkedRow

\* C8 (as claimed): a re-run on the unchanged input that ends without error leaves the
\* same bag of rows as the run before it.
C8_RerunSameRows ==
    (run = 2 /\ mpc = "returned" /\ ret = "nil") => RowBag(out) = prev

\* C9: a document that cannot be opened or does not parse has no row in the sink; the
\* goroutine leaves generateRows only after the last file of its shard, and then, if
\* no sink write failed, every document of the shard that parses has a row.
C9_FailedDocumentIsSkipped ==
    \A w \in Workers :
        /\ \A f \in 1..Len(Files(w)) : FailingDoc(w, f) => RowCount(out \o buf, w, f) = 0
        /\ wpc[w] \in {"release", "wgdone", "exited"} =>
              /\ fidx[w] = Len(Files(w)) + 1
              /\ ~werr => \A f \in 1..Len(Files(w)) :
                             GoodDoc(w, f) => RowCount(out, w, f) >= 1

\* C9 witness: a goroutine has ended whose shard held a failing document followed by
\* a document that parses, and the later document has its row.
C9_Witness ==
    \E w \in Workers :
        /\ wpc[w] = "exited"
        /\ \E f, g \in 1..Len(Files(w)) :
              /\ f < g
              /\ FailingDoc(w, f)
              /\ StreamEnd(Files(w)[f].tokens, 0) = "err"
              /\ GoodDoc(w, g)
              /\ RowCount(out, w, g) >= 1

\* C10 (as claimed): once a write or flush to the sink has failed, no goroutine
\* starts on another document.
C10_SinkFailureStopsTheRun ==
    [][werr => \A w \in Workers : ~(wpc[w] = "files" /\ wpc'[w] = "token")]_vars

(***************************************************************************)
(* The progress counter: the tail of the io.EOF branch of flatten, run by  *)
(* goroutines that complete documents side by side.                        *)
(***************************************************************************)
MaxProgressWorkers == 2
MaxCompletions == 2
MaxBefore == 2
LogEvery == 1000

pipelineVars == <<root, limit, mpc, ret, idx, semaphore, wg, rwLocked, werr, buf, out,
                  workerVars, run, prev, processingErrors>>

\* The pipeline at rest: the values its variables keep in the specifications of the
\* progress counter and of httpGetWithRetry.
PipelineAtRest ==
    /\ root = <<>>
    /\ limit = 1
    /\ run = 1
    /\ prev = EmptyBag
    /\ mpc = "wait"
    /\ ret = "none"
    /\ idx = 1
    /\ semaphore = 0
    /\ wg = 0
    /\ rwLocked = FALSE
    /\ werr = FALSE
    /\ buf = <<>>
    /\ out = <<>>
    /\ wpc = <<>>
    /\ fidx = <<>>
    /\ pos = <<>>
    /\ stack = <<>>
    /\ Record = <<>>
    /\ row = <<>>
    /\ wi = <<>>
    /\ processingErrors = {}

ProgressWorkers == DOMAIN ppc

\* A run in which all but a few of LogEvery documents are complete, and each of the
\* goroutines is about to complete MaxCompletions more.
InitProgress ==
    /\ PipelineAtRest
    /\ HttpIdle
    /\ DownloadIdle
    /\ ExtractIdle
    /\ ToolsIdle
    /\ myInt \in (LogEvery - MaxBefore)..(LogEvery - 1)
    /\ ppc = [w \in 1..MaxProgressWorkers |-> "add"]
    /\ pleft = [w \in 1..MaxProgressWorkers |-> MaxCompletions]
    /\ plog = <<>>

\* return nil: the document is complete, the goroutine goes on to its next one.
Completed(w) ==
    /\ pleft' = [pleft EXCEPT ![w] = @ - 1]
    /\ ppc' = [ppc EXCEPT ![w] = IF pleft[w] > 1 THEN "add" ELSE "done"]

\* myInt.Add(1)
MyIntAdd(w) ==
    /\ ppc[w] = "add"
    /\ myInt' = myInt + 1
    /\ ppc' = [ppc EXCEPT ![w] = "load"]
    /\ UNCHANGED <<pleft, plog, pipelineVars, httpVars, ioVars>>

\* if myInt.Load()%1000 == 0
MyIntLoad(w) ==
    /\ ppc[w] = "load"
    /\ IF myInt % LogEvery = 0
       THEN ppc' = [ppc EXCEPT ![w] = "log"] /\ pleft' = pleft
       ELSE Completed(w)
    /\ UNCHANGED <<myInt, plog, pipelineVars, httpVars, ioVars>>

\* log.Printf("Processed %d files...", myInt.Load())
LogProgress(w) ==
    /\ ppc[w] = "log"
    /\ plog' = Append(plog, myInt)
    /\ Completed(w)
    /\ UNCHANGED <<myInt, pipelineVars, httpVars, ioVars>>

NextProgress ==
    \/ \E w \in ProgressWorkers : MyIntAdd(w)
    \/ \E w \in ProgressWorkers : MyIntLoad(w)
    \/ \E w \in ProgressWorkers : LogProgress(w)

SpecProgress == InitProgress /\ [][NextProgress]_vars

(***************************************************************************)
(* httpGetWithRetry.                                                       *)
(***************************************************************************)
maxRetries == 3
\* retryDelay, in seconds
retryDelay == 2

\* What httpClient.Do answers: an error, or a response with a status code.
TransportError == [err |-> TRUE, code |-> 0]
Response(code) == [err |-> FALSE, code |-> code]
Outcomes == {TransportError} \cup {Response(c) : c \in {200, 204, 404, 500, 503}}

InitHttp ==
    /\ PipelineAtRest
    /\ ProgressIdle
    /\ DownloadIdle
    /\ ExtractIdle
    /\ ToolsIdle
    /\ myInt = 0
    /\ hpc = "loop"
    /\ attempt = 0
    /\ lastErr = "nil"
    /\ responses = <<>>
    /\ waits = <<>>
    /\ hret = "none"
    /\ ctxDone \in BOOLEAN
    /\ timerReady = FALSE
    /\ urlOK \in BOOLEAN

HttpReturn(r) == hpc' = "returned" /\ hret' = r

\* Mutant: the loop allows one attempt more.
HasAttemptsLeft_OneMore == attempt <= maxRetries

\* attempt < maxRetries
HasAttemptsLeft == attempt < maxRetries

\* 1 << uint(n)
RECURSIVE ShiftLeftOne(_)
ShiftLeftOne(n) == IF n = 0 THEN 1 ELSE 2 * ShiftLeftOne(n - 1)

\* delay := retryDelay * time.Duration(1<<uint(attempt-1))
Delay(a) == retryDelay * ShiftLeftOne(a - 1)

\* Mutant: every answer other than a 200 response is tried again.
Retryable_AnyFailure(o) == o.err \/ o.code # 200

\* The answers after which the loop continues: an error of Do, a status >= 500.
Retryable(o) == o.err \/ o.code >= 500

\* The head of the for loop; after it, return "max retries exceeded".
LoopHead ==
    /\ hpc = "loop"
    /\ IF HasAttemptsLeft
       THEN hpc' = (IF attempt > 0 THEN "select" ELSE "request") /\ hret' = hret
       ELSE HttpReturn("maxretries")
    /\ timerReady' = FALSE
    /\ UNCHANGED <<attempt, lastErr, responses, waits, ctxDone, urlOK>>
    /\ UNCHANGED <<myInt, pipelineVars, progressVars, ioVars>>

\* The delay of time.After(delay) has passed: its channel can be received from.
TimerExpires ==
    /\ hpc = "select"
    /\ ~timerReady
    /\ timerReady' = TRUE
    /\ UNCHANGED <<hpc, attempt, lastErr, responses, waits, hret, ctxDone, urlOK>>
    /\ UNCHANGED <<myInt, pipelineVars, progressVars, ioVars>>

\* case <-time.After(delay)
TimerFires ==
    /\ hpc = "select"
    /\ timerReady
    /\ waits' = Append(waits, Delay(attempt))
    /\ hpc' = "request"
    /\ timerReady' = FALSE
    /\ UNCHANGED <<attempt, lastErr, responses, hret, ctxDone, urlOK>>
    /\ UNCHANGED <<myInt, pipelineVars, progressVars, ioVars>>

\* Mutant: on ctx.Done() the loop goes on to the request instead of returning.
Cancelled_GoesOn ==
    /\ hpc = "select"
    /\ ctxDone
    /\ hpc' = "request"
    /\ UNCHANGED <<attempt, lastErr, responses, waits, hret, ctxDone, timerReady, urlOK>>
    /\ UNCHANGED <<myInt, pipelineVars, progressVars, ioVars>>

\* case <-ctx.Done(): return nil, ctx.Err()
Cancelled ==
    /\ hpc = "select"
    /\ ctxDone
    /\ HttpReturn("ctx")
    /\ UNCHANGED <<attempt, lastErr, responses, waits, ctxDone, timerReady, urlOK>>
    /\ UNCHANGED <<myInt, pipelineVars, progressVars, ioVars>>

\* http.NewRequestWithContext fails: return "failed to create request".
NewRequestFails ==
    /\ hpc = "request"
    /\ ~urlOK
    /\ HttpReturn("request")
    /\ UNCHANGED <<attempt, lastErr, responses, waits, ctxDone, timerReady, urlOK>>
    /\ UNCHANGED <<myInt, pipelineVars, progressVars, ioVars>>

\* httpClient.Do(req) and what follows its answer o.  Under a cancelled ctx Do
\* answers with an error.
Do(o) ==
    /\ hpc = "request"
    /\ urlOK
    /\ ctxDone => o.err
    /\ responses' = Append(responses, o)
    /\ IF ~o.err /\ o.code = 200
       THEN HttpReturn("resp") /\ UNCHANGED <<attempt, lastErr>>
       ELSE IF Retryable(o)
       THEN /\ lastErr' = (IF o.err THEN "transport" ELSE "server")
            /\ attempt' = attempt + 1
            /\ hpc' = "loop"
            /\ hret' = hret
       ELSE HttpReturn("status") /\ UNCHANGED <<attempt, lastErr>>
    /\ UNCHANGED <<waits, ctxDone, timerReady, urlOK>>
    /\ UNCHANGED <<myInt, pipelineVars, progressVars, ioVars>>

\* The caller's context is cancelled or its deadline passes.
Cancel ==
    /\ hpc # "returned"
    /\ ~ctxDone
    /\ ctxDone' = TRUE
    /\ UNCHANGED <<hpc, attempt, lastErr, responses, waits, hret, timerReady, urlOK>>
    /\ UNCHANGED <<myInt, pipelineVars, progressVars, ioVars>>

NextHttp ==
    \/ LoopHead
    \/ TimerExpires
    \/ TimerFires
    \/ Cancelled
    \/ NewRequestFails
    \/ \E o \in Outcomes : Do(o)
    \/ Cancel

SpecHttp == InitHttp /\ [][NextHttp]_vars

(***************************************************************************)
(* The header row, the order of rows, the bookkeeping of a run.            *)
(***************************************************************************)
\* Everything written to the csv.Writer so far, flushed or not.
Written == out \o buf

HeaderChunks == RowChunks(0, 0, header)

\* C11: the header row is written exactly once, by ParseXMLs itself, before any
\* worker is started: whatever has been written begins with the header, nothing
\* after it is written by ParseXMLs, and once a worker has been started the header
\* is in the sink.
C11_HeaderOnceBeforeWorkers ==
    /\ Written # <<>> =>
          /\ Len(Written) >= Len(HeaderChunks)
          /\ SubSeq(Written, 1, Len(HeaderChunks)) = HeaderChunks
    /\ \A i \in 1..Len(Written) : Written[i].w = 0 <=> i <= Len(HeaderChunks)
    /\ (\E w \in Workers : wpc[w] # "idle") =>
          /\ Len(out) >= Len(HeaderChunks)
          /\ SubSeq(out, 1, Len(HeaderChunks)) = HeaderChunks

\* Two workers have been started and a row of one of them is in the sink.
C11_Witness ==
    /\ \E v, w \in Workers : v # w /\ wpc[v] # "idle" /\ wpc[w] # "idle"
    /\ \E i \in 1..Len(out) : out[i].w # 0
    /\ SubSeq(out, 1, Len(HeaderChunks)) = HeaderChunks

\* C12: in a shard the documents are taken in the order of the listing, and what
\* the shard's worker writes follows that order, whatever other workers write in
\* between.
C12_RowsInListingOrder ==
    /\ \A i, j \in 1..Len(Written) :
          (i < j /\ Written[i].w = Written[j].w) => Written[i].f <= Written[j].f
    /\ \A i \in 1..Len(Written) :
          Written[i].w # 0 => Written[i].f <= fidx[Written[i].w]

\* Rows of two documents of one shard are in the sink, a row of another shard
\* between them.
C12_Witness ==
    \E i, j, k \in 1..Len(out) :
        /\ i < k /\ k < j
        /\ out[i].w # 0 /\ out[i].w = out[j].w /\ out[i].f < out[j].f
        /\ out[k].w # 0 /\ out[k].w # out[i].w

\* The loop over the root entries is over.
LoopDone == mpc \in {"wait", "flush", "returned"} /\ idx > Len(root)

\* C13 (as claimed): the failures of a run are collected: when ParseXMLs has
\* returned, every shard in which a document failed has an entry in processingErrors.
C13_FailuresAreCollected ==
    (mpc = "returned" /\ LoopDone) =>
        \A w \in Workers :
            (wpc[w] = "exited" /\ \E f \in 1..Len(Files(w)) : FailingDoc(w, f))
                => w \in processingErrors

\* The paths the header binds to a column in the worked example of the
\* specification: EIN and OrganizationName.
HeaderPaths == {PathKey(<<"Return", "EIN">>), PathKey(<<"Return", "Filer", "Name">>)}

\* C14 (as claimed): the values of a path of the record that no header column is
\* bound to are in no cell of the row written for the record.
C14_UnmappedPathsAreDropped ==
    \A w \in Workers :
        wpc[w] = "flush" =>
            \A key \in (DOMAIN Record[w]) \ HeaderPaths :
                Record[w][key] # <<>> =>
                    \A i \in 1..Len(row[w]) : row[w][i] # Cell(Record[w][key])

\* C16 (as claimed): when the loop over the root entries is over, a goroutine has
\* been started for exactly the entries that are not archives by name and whose
\* listing succeeded.
C16_ExactlyTheArchivesAreExcluded ==
    LoopDone =>
        \A w \in Workers :
            wpc[w] # "idle" <=> (~IsArchiveName(root[w].name) /\ root[w].listable)

\* C17: when ParseXMLs returns before its loop (the sheet, the header or the
\* listing of the root failed) it returns an error and no goroutine was started;
\* when it returns after its loop, no goroutine was started for an entry that
\* cannot be listed, and every entry that can be listed and that the name test
\* lets through has been processed to its last file.
C17_DiscoveryErrors ==
    /\ (mpc = "returned" /\ ~LoopDone) =>
          /\ ret = "err"
          /\ \A w \in Workers : wpc[w] = "idle"
    /\ (mpc = "returned" /\ LoopDone) =>
          \A w \in Workers :
              /\ ~root[w].listable => wpc[w] = "idle"
              /\ (root[w].listable /\ ~MatchDotZip(root[w].name)) =>
                    (wpc[w] = "exited" /\ fidx[w] = Len(Files(w)) + 1)

\* ParseXMLs has returned nil on a root with an entry that cannot be listed,
\* followed by a shard the row of whose document is in the sink.
C17_Witness ==
    /\ mpc = "returned" /\ ret = "nil"
    /\ \E u, w \in Workers :
          /\ u < w
          /\ ~root[u].listable
          /\ wpc[w] = "exited"
          /\ \E f \in 1..Len(Files(w)) : RowCount(out, w, f) >= 1

\* C15 (as claimed): when the goroutines have completed their documents, every
\* multiple of LogEvery the counter has reached has been logged, once.
C15_EveryIntervalLoggedOnce ==
    (\A w \in ProgressWorkers : ppc[w] = "done") =>
        \A m \in (LogEvery - MaxBefore + 1)..myInt :
            m % LogEvery = 0 =>
                Cardinality({i \in 1..Len(plog) : plog[i] = m}) = 1

\* C18: httpGetWithRetry sends at most maxRetries requests, and returns "max
\* retries exceeded" only after maxRetries requests, each answered by an error of
\* Do or a status of 500 or more.
C18_AtMostMaxRetriesRequests ==
    /\ Len(responses) <= maxRetries
    /\ hret = "maxretries" =>
          /\ Len(responses) = maxRetries
          /\ \A i \in 1..Len(responses) : responses[i].err \/ responses[i].code >= 500

\* "max retries exceeded" is returned after an error of Do and two server errors.
C18_Witness ==
    /\ hret = "maxretries"
    /\ Len(responses) = maxRetries
    /\ \E i, j \in 1..Len(responses) : responses[i].err /\ responses[j].code >= 500

\* C19 (as claimed): the waits between the attempts follow the schedule 2s, 4s, 8s:
\* the waits made so far are the first ones of it, and a call that has used all its
\* attempts has made all of them.
C19_BackoffSchedule ==
    /\ \E n \in 0..3 : waits = SubSeq(<<2, 4, 8>>, 1, n)
    /\ hret = "maxretries" => waits = <<2, 4, 8>>

\* C20: a response is returned only when its status is 200; no request follows an
\* answer that is neither an error of Do nor a status of 500 or more, and after
\* such an answer other than 200 the call has returned its "HTTP <status>" error;
\* after an error of Do or a status of 500 or more, with attempts left, the call
\* goes on to the next attempt unless ctx ends the wait before it.
C20_RetryClassification ==
    LET n == Len(responses)
    IN  /\ hret = "resp" <=> (n > 0 /\ ~responses[n].err /\ responses[n].code = 200)
        /\ \A i \in 1..(n - 1) : responses[i].err \/ responses[i].code >= 500
        /\ (n > 0 /\ ~responses[n].err /\ responses[n].code \in 400..499) =>
              (hpc = "returned" /\ hret = "status")
        /\ (n > 0 /\ n < maxRetries /\ hpc = "returned"
              /\ (responses[n].err \/ responses[n].code >= 500)) => hret = "ctx"

\* A server error was tried again, the answer to the second request was a 404 and
\* the call has returned its error.
C20_Witness ==
    /\ Len(responses) = 2
    /\ responses[1] = Response(503)
    /\ responses[2] = Response(404)
    /\ hret = "status"

(***************************************************************************)
(* The record of a document.                                               *)
(***************************************************************************)
\* The tag chains of the elements of a document, root first.
ElementPaths(tokens) ==
    {OpenStack(tokens, k) : k \in {i \in 1..Len(tokens) : tokens[i].k = "start"}}

\* The non-blank texts, trimmed, that the elements of tag chain p directly contain
\* among the first k tokens, in document order.
RECURSIVE TextsAt(_, _, _)
TextsAt(tokens, p, k) ==
    IF k = 0 THEN <<>>
    ELSE LET t == tokens[k]
         IN  IF t.k = "chars" /\ TrimSpace(t.v) # <<>> /\ OpenStack(tokens, k - 1) = p
             THEN Append(TextsAt(tokens, p, k - 1), TrimSpace(t.v))
             ELSE TextsAt(tokens, p, k - 1)

\* The record x.Record that flatten leaves when it is run on a token stream from
\* record rec: the loop of flatten, its activations kept in stk, up to io.EOF or
\* an error of the decoder.
RECURSIVE FlattenFrom(_, _, _, _)
FlattenFrom(tokens, p, stk, rec) ==
    LET t == Token(tokens, p)
        top == stk[Len(stk)]
        below == SubSeq(stk, 1, Len(stk) - 1)
    IN  IF stk = <<>> \/ t.k \in {"eof", "err"} THEN rec
        ELSE IF t.k = "start"
        THEN FlattenFrom(tokens, p + 1,
                 below \o <<[top EXCEPT !.element = t.n, !.lastTag = t.n],
                            Frame(t.n, Append(top.prefix, t.n))>>, rec)
        ELSE IF t.k = "chars"
        THEN FlattenFrom(tokens, p + 1, stk,
                 RecordCharData(rec, top.prefix, top.lastTag, t.v))
        ELSE IF t.k = "end" /\ t.n = top.element
        THEN FlattenFrom(tokens, p + 1, below, rec)
        ELSE FlattenFrom(tokens, p + 1, stk, rec)

\* The record after generateRows has taken the first n files of a listing, and the
\* record it would have if the files that fail had not been in the listing.
RECURSIVE RecordAfter(_, _, _)
RecordAfter(files, n, skipFailed) ==
    IF n = 0 THEN EmptyRecord
    ELSE LET rec == RecordAfter(files, n - 1, skipFailed)
             f == files[n]
         IN  IF f.isDir \/ ~f.openable THEN rec
             ELSE IF skipFailed /\ StreamEnd(f.tokens, 0) = "err" THEN rec
             ELSE FlattenFrom(f.tokens, 0, <<Frame("", <<>>)>>, rec)

\* C25 (as claimed): when flatten starts on a document the record of the goroutine
\* is empty.
C25_RecordFreshPerDocument ==
    \A w \in Workers : (wpc[w] = "token" /\ pos[w] = 0) => Record[w] = EmptyRecord

\* C26 (as claimed): the record a row is built from is the one the goroutine would
\* have if the documents of the shard that failed before had not existed.
C26_FailedRecordIsDiscarded ==
    \A w \in Workers :
        wpc[w] = "write" => Record[w] = RecordAfter(Files(w), fidx[w], TRUE)

\* C27 (as claimed): before every token of a document that parses, the innermost
\* activation of flatten has the chain of the open elements as its prefix, and
\* there is one activation per open element above the outermost one.
C27_PathIsTheOpenElements ==
    \A w \in Workers :
        (wpc[w] = "token" /\ pos[w] < Len(Doc(w)) /\ StreamEnd(Doc(w), 0) = "eof") =>
            /\ Top(w).prefix = OpenStack(Doc(w), pos[w])
            /\ Len(stack[w]) = Len(OpenStack(Doc(w), pos[w])) + 1

\* C28 (as claimed): every key of the record of the first document of a shard is the
\* tag chain of an element of the document.
C28_KeysAreElementPaths ==
    \A w \in Workers :
        (wpc[w] = "write" /\ fidx[w] = 1) =>
            \A key \in DOMAIN Record[w] :
                \E p \in ElementPaths(Doc(w)) : key = PathKey(p)

\* C29 (as claimed): in the record of the first document of a shard every element
\* that directly contains no text other than blanks has its tag chain as a key,
\* with the empty sequence.
C29_EmptyElementIsRegistered ==
    \A w \in Workers :
        (wpc[w] = "write" /\ fidx[w] = 1) =>
            \A p \in ElementPaths(Doc(w)) :
                TextsAt(Doc(w), p, Len(Doc(w))) = <<>> =>
                    /\ PathKey(p) \in DOMAIN Record[w]
                    /\ Record[w][PathKey(p)] = <<>>

\* C30 (as claimed): in the record of the first document of a shard the sequence of
\* a tag chain holds the trimmed non-blank texts its elements directly contain, all
\* of them, in document order.
C30_MergePolicy ==
    \A w \in Workers :
        (wpc[w] = "write" /\ fidx[w] = 1) =>
            \A p \in ElementPaths(Doc(w)) :
                Get(Record[w], PathKey(p)) = TextsAt(Doc(w), p, Len(Doc(w)))

\* The record a row is built from is the one FlattenFrom computes.
RecordIsFlattenFrom ==
    \A w \in Workers :
        wpc[w] = "write" => Record[w] = RecordAfter(Files(w), fidx[w], FALSE)

(***************************************************************************)
(* The download commands: downloadFile, fetchSchema, fetchZip, and the     *)
(* sync of CheckAndDownloadMissingZips with downloadSingleFile.            *)
(***************************************************************************)
MaxBody == 2

FileNames == {"f1.zip", "f2.zip"}

\* The links getAvailableZipFiles may find on the page, in page order.
AvailLists == {<<"f1.zip", "f2.zip">>, <<"f2.zip", "f1.zip", "f1.zip">>}

\* The operations that are called with one url.
SingleOps == {"downloadFile", "fetchSchema", "fetchZip"}

notDownloadVars == <<myInt, pipelineVars, progressVars, httpVars, extractVars, toolVars>>

Range(seq) == {seq[i] : i \in 1..Len(seq)}

InitDownload ==
    /\ PipelineAtRest
    /\ myInt = 0
    /\ ProgressIdle
    /\ HttpIdle
    /\ ExtractIdle
    /\ ToolsIdle
    /\ disk = [f \in FileNames |-> Absent]
    /\ dpc = "idle"
    /\ dop = "none"
    /\ dfile = "none"
    /\ davail = <<>>
    /\ dmissing = {}
    /\ dqueue = <<>>
    /\ dbody = 0
    /\ dret = "none"

\* Mutant: the check of the existing file is left out.
AlreadyDownloaded_Never(f) == FALSE

\* info, err := os.Stat(path); err == nil && info.Size() > 0
AlreadyDownloaded(f) == disk[f] # Absent /\ disk[f] > 0

\* getDownloadedZipFiles: the names of the entries of the directory.
Downloaded == {f \in FileNames : disk[f] # Absent}

\* findMissingFiles: the urls whose file name is not among the downloaded ones.
FindMissing(available, downloaded) ==
    SelectSeq(available, LAMBDA f : f \notin downloaded)

\* A download operation returns r: to the loop of the sync, or to the command line.
Finish(r) ==
    /\ dret' = r
    /\ dpc' = IF dop = "downloadSingleFile" THEN "next" ELSE "idle"

\* A command calls downloadFile, fetchSchema or fetchZip for one url.
StartDownload(op, f) ==
    /\ dpc = "idle"
    /\ dop' = op
    /\ dfile' = f
    /\ dpc' = "stat"
    /\ dret' = "none"
    /\ davail' = <<>>
    /\ dmissing' = {}
    /\ UNCHANGED <<disk, dqueue, dbody>>
    /\ UNCHANGED notDownloadVars

\* The sync command calls CheckAndDownloadMissingZips.
StartSync ==
    /\ dpc = "idle"
    /\ dop' = "sync"
    /\ dfile' = "none"
    /\ dpc' = "available"
    /\ dret' = "none"
    /\ davail' = <<>>
    /\ dmissing' = {}
    /\ UNCHANGED <<disk, dqueue, dbody>>
    /\ UNCHANGED notDownloadVars

\* getAvailableZipFiles, getDownloadedZipFiles and findMissingFiles; an error of
\* one of the first two is returned.
ListMissing ==
    /\ dpc = "available"
    /\ \/ \E a \in AvailLists :
            /\ davail' = a
            /\ dqueue' = FindMissing(a, Downloaded)
            /\ dmissing' = Range(FindMissing(a, Downloaded))
            /\ dpc' = "next"
            /\ dret' = dret
       \/ /\ dpc' = "idle"
          /\ dret' = "err"
          /\ UNCHANGED <<davail, dqueue, dmissing>>
    /\ UNCHANGED <<disk, dop, dfile, dbody>>
    /\ UNCHANGED notDownloadVars

\* The loop over missingFiles: downloadSingleFile for the next url, up to its
\* os.MkdirAll; after the last url CheckAndDownloadMissingZips returns nil.
NextMissing ==
    /\ dpc = "next"
    /\ IF dqueue = <<>>
       THEN /\ dpc' = "idle"
            /\ dop' = "sync"
            /\ UNCHANGED <<dfile, dqueue, dret>>
       ELSE /\ dop' = "downloadSingleFile"
            /\ dfile' = Head(dqueue)
            /\ dqueue' = Tail(dqueue)
            /\ \/ dpc' = "stat" /\ dret' = "none"
               \/ dpc' = "next" /\ dret' = "err"
    /\ UNCHANGED <<disk, davail, dmissing, dbody>>
    /\ UNCHANGED notDownloadVars

\* The check of the existing file: skip it, or go on to the request.
Stat ==
    /\ dpc = "stat"
    /\ IF AlreadyDownloaded(dfile)
       THEN Finish("skipped")
       ELSE dpc' = "get" /\ dret' = dret
    /\ UNCHANGED <<disk, dop, dfile, davail, dmissing, dqueue, dbody>>
    /\ UNCHANGED notDownloadVars

\* httpGetWithRetry returns a response, with a body of some length, or an error.
GetResponse ==
    /\ dpc = "get"
    /\ \/ \E b \in {0, MaxBody} : dbody' = b /\ dpc' = "create" /\ dret' = dret
       \/ Finish("err") /\ dbody' = dbody
    /\ UNCHANGED <<disk, dop, dfile, davail, dmissing, dqueue>>
    /\ UNCHANGED notDownloadVars

\* os.Create(path): the file is there and empty, or an error is returned.
CreateFile ==
    /\ dpc = "create"
    /\ \/ disk' = [disk EXCEPT ![dfile] = 0] /\ dpc' = "copy" /\ dret' = dret
       \/ Finish("err") /\ disk' = disk
    /\ UNCHANGED <<dop, dfile, davail, dmissing, dqueue, dbody>>
    /\ UNCHANGED notDownloadVars

\* io.Copy(out, res.Body) writes the next chunk of the body.
CopyChunk ==
    /\ dpc = "copy"
    /\ disk[dfile] < dbody
    /\ disk' = [disk EXCEPT ![dfile] = @ + 1]
    /\ UNCHANGED <<dpc, dop, dfile, davail, dmissing, dqueue, dbody, dret>>
    /\ UNCHANGED notDownloadVars

\* io.Copy returns an error: the operation returns it.
CopyFails ==
    /\ dpc = "copy"
    /\ Finish("err")
    /\ UNCHANGED <<disk, dop, dfile, davail, dmissing, dqueue, dbody>>
    /\ UNCHANGED notDownloadVars

\* io.Copy returns at the end of the body; downloadSingleFile returns an error
\* when nothing was written.
CopyDone ==
    /\ dpc = "copy"
    /\ disk[dfile] = dbody
    /\ IF dop = "downloadSingleFile" /\ dbody = 0
       THEN Finish("err")
       ELSE Finish("nil")
    /\ UNCHANGED <<disk, dop, dfile, davail, dmissing, dqueue, dbody>>
    /\ UNCHANGED notDownloadVars

\* The process is stopped while a command runs.
Interrupt ==
    /\ dpc # "idle"
    /\ dpc' = "idle"
    /\ dret' = "interrupted"
    /\ dqueue' = <<>>
    /\ UNCHANGED <<disk, dop, dfile, davail, dmissing, dbody>>
    /\ UNCHANGED notDownloadVars

NextDownload ==
    \/ \E op \in SingleOps, f \in FileNames : StartDownload(op, f)
    \/ StartSync
    \/ ListMissing
    \/ NextMissing
    \/ Stat
    \/ GetResponse
    \/ CreateFile
    \/ CopyChunk
    \/ CopyFails
    \/ CopyDone
    \/ Interrupt

SpecDownload == InitDownload /\ [][NextDownload]_vars

\* A file that is there, with fewer chunks than the remote file has.
Partial(f) == disk[f] # Absent /\ disk[f] > 0 /\ disk[f] < MaxBody

\* C21: no step of a download command changes a file that is there with size > 0,
\* other than the copy of the operation that created it going on; an operation that
\* finds such a file at its check does not go on to the request.
C21_ExistingFilesUntouched ==
    [][/\ \A f \in FileNames :
             (disk[f] > 0 /\ ~(dpc = "copy" /\ dfile = f)) => disk'[f] = disk[f]
       /\ (dpc = "stat" /\ disk[dfile] > 0) =>
             (dpc' \in {"idle", "next"} /\ dret' \in {"skipped", "interrupted"})]_vars

\* An operation has skipped a file that is there with all its chunks.
C21_Witness ==
    /\ dret = "skipped"
    /\ dop \in SingleOps \cup {"downloadSingleFile"}
    /\ disk[dfile] = MaxBody

\* C22 (as claimed): a partially written file is never taken as downloaded: no
\* operation skips it at its check, and the sync does not leave it out of the
\* missing files.
C22_PartialNeverAccepted ==
    /\ dret = "skipped" => ~Partial(dfile)
    /\ dop \in {"sync", "downloadSingleFile"} =>
          \A f \in Range(davail) : f \notin dmissing => ~Partial(f)

\* C23 (as claimed): an empty local file is not kept: the sync that finds it lists
\* it as missing.
C23_EmptyFileIsMissing ==
    dop \in {"sync", "downloadSingleFile"} =>
        \A f \in Range(davail) : disk[f] = 0 => f \in dmissing

(***************************************************************************)
(* Extraction of an archive: unzipXMLs with extractZipFile, and extractZip. *)
(* A path is the sequence of its characters.                               *)
(***************************************************************************)
MaxNameParts == 2

\* strings.HasPrefix
HasPrefix(s, prefix) ==
    Len(s) >= Len(prefix) /\ SubSeq(s, 1, Len(prefix)) = prefix

\* The elements of a path between its separators.
RECURSIVE SplitPath(_, _, _)
SplitPath(s, cur, acc) ==
    IF s = <<>> THEN Append(acc, cur)
    ELSE IF Head(s) = "/" THEN SplitPath(Tail(s), <<>>, Append(acc, cur))
    ELSE SplitPath(Tail(s), Append(cur, Head(s)), acc)
Parts(s) == SplitPath(s, <<>>, <<>>)

RECURSIVE JoinParts(_)
JoinParts(parts) ==
    IF parts = <<>> THEN <<>>
    ELSE IF Len(parts) = 1 THEN parts[1]
    ELSE parts[1] \o <<"/">> \o JoinParts(Tail(parts))

\* filepath.Clean on the elements: empty and "." elements go, ".." takes the
\* element before it away, stays at the head of a relative path, goes at a root.
RECURSIVE CleanParts(_, _, _)
CleanParts(parts, k, rooted) ==
    IF k = 0 THEN <<>>
    ELSE LET done == CleanParts(parts, k - 1, rooted)
             e == parts[k]
         IN  IF e = <<>> \/ e = <<".">> THEN done
             ELSE IF e = <<".", ".">>
             THEN IF done # <<>> /\ done[Len(done)] # <<".", ".">>
                  THEN SubSeq(done, 1, Len(done) - 1)
                  ELSE IF rooted THEN done ELSE Append(done, e)
             ELSE Append(done, e)

\* filepath.Clean
Clean(s) ==
    LET rooted == s # <<>> /\ Head(s) = "/"
        done == CleanParts(Parts(s), Len(Parts(s)), rooted)
    IN  IF rooted THEN <<"/">> \o JoinParts(done)
        ELSE IF done = <<>> THEN <<".">>
        ELSE JoinParts(done)

\* filepath.Join(a, b), a not empty
JoinPath(a, b) == IF b = <<>> THEN Clean(a) ELSE Clean(a \o <<"/">> \o b)

\* filepath.Dir of a clean relative path
PathDir(path) ==
    IF Len(Parts(path)) <= 1 THEN <<".">>
    ELSE JoinParts(SubSeq(Parts(path), 1, Len(Parts(path)) - 1))

\* The directory the archive is extracted to: d/x.
ExtractDir == <<"d", "/", "x">>

\* Mutant: the path check compares with the directory, without the separator.
SlipPrefix_NoSeparator(dest) == Clean(dest)

\* filepath.Clean(dest) + string(os.PathSeparator)
SlipPrefix(dest) == Clean(dest) \o <<"/">>

\* The names of archive entries: up to MaxNameParts elements, each empty, ".",
\* "..", "xe" or "f".
NameElements == {<<>>, <<".">>, <<".", ".">>, <<"x", "e">>, <<"f">>}
EntryNames ==
    UNION {{JoinParts(ps) : ps \in [1..n -> NameElements]} : n \in 1..MaxNameParts}

Entry(name, isDir) == [name |-> name, isDir |-> isDir]
PlainEntry == Entry(<<"f">>, FALSE)

\* An archive: one entry of any name, alone, before or after a plain file.
Archives ==
    UNION {{<<Entry(n, d)>>, <<Entry(n, d), PlainEntry>>, <<PlainEntry, Entry(n, d)>>} :
             n \in EntryNames, d \in BOOLEAN}

notExtractVars == <<myInt, pipelineVars, progressVars, httpVars, downloadVars, toolVars>>

InitExtract ==
    /\ PipelineAtRest
    /\ myInt = 0
    /\ ProgressIdle
    /\ HttpIdle
    /\ DownloadIdle
    /\ ToolsIdle
    /\ earchive \in Archives
    /\ eimpl \in {"unzipXMLs", "extractZip"}
    /\ eidx = 0
    /\ created = {}
    /\ rejected = {}
    /\ errored = {}
    /\ eret = "none"

\* The directories on the way to a clean relative path, and the path itself.
Ancestors(path) ==
    {JoinParts(SubSeq(Parts(path), 1, k)) : k \in 1..Len(Parts(path))}

\* os.MkdirAll(path): the directories that were not there are made.
MkdirAll(path) == Ancestors(path) \ (Ancestors(ExtractDir) \cup created)

EntryPath == JoinPath(ExtractDir, earchive[eidx].name)

AtEntry == eret = "none" /\ eidx \in 1..Len(earchive)

\* An entry ends in an error: unzipXMLs logs it and goes on, extractZip returns it.
EntryError ==
    /\ errored' = errored \cup {eidx}
    /\ eidx' = eidx + 1
    /\ eret' = IF eimpl = "extractZip" THEN "err" ELSE eret

\* zip.OpenReader and os.MkdirAll of the extraction directory.
OpenArchive ==
    /\ eret = "none"
    /\ eidx = 0
    /\ \/ eidx' = 1 /\ eret' = eret
       \/ eidx' = eidx /\ eret' = "err"
    /\ UNCHANGED <<earchive, eimpl, created, rejected, errored>>
    /\ UNCHANGED notExtractVars

\* The joined path of the entry does not begin with the directory and a separator.
RejectEntry ==
    /\ AtEntry
    /\ ~HasPrefix(EntryPath, SlipPrefix(ExtractDir))
    /\ rejected' = rejected \cup {eidx}
    /\ EntryError
    /\ UNCHANGED <<earchive, eimpl, created>>
    /\ UNCHANGED notExtractVars

\* A directory entry: os.MkdirAll(path).
ExtractDirEntry ==
    /\ AtEntry
    /\ HasPrefix(EntryPath, SlipPrefix(ExtractDir))
    /\ earchive[eidx].isDir
    /\ created' = created \cup MkdirAll(EntryPath)
    /\ eidx' = eidx + 1
    /\ UNCHANGED <<earchive, eimpl, rejected, errored, eret>>
    /\ UNCHANGED notExtractVars

\* A file entry: os.MkdirAll(filepath.Dir(path)), os.OpenFile(path), io.Copy.
ExtractFileEntry ==
    /\ AtEntry
    /\ HasPrefix(EntryPath, SlipPrefix(ExtractDir))
    /\ ~earchive[eidx].isDir
    /\ created' = created \cup MkdirAll(PathDir(EntryPath)) \cup {EntryPath}
    /\ eidx' = eidx + 1
    /\ UNCHANGED <<earchive, eimpl, rejected, errored, eret>>
    /\ UNCHANGED notExtractVars

\* extractZipFile: f.Open() fails, before the path is looked at.
OpenEntryFails ==
    /\ AtEntry
    /\ eimpl = "unzipXMLs"
    /\ EntryError
    /\ UNCHANGED <<earchive, eimpl, created, rejected>>
    /\ UNCHANGED notExtractVars

\* os.MkdirAll, os.OpenFile, file.Open() of extractZip or io.Copy fails for an
\* entry that has passed the path check, before or after the directories above
\* it were made.
WriteEntryFails ==
    /\ AtEntry
    /\ HasPrefix(EntryPath, SlipPrefix(ExtractDir))
    /\ EntryError
    /\ \/ created' = created
       \/ created' = created \cup MkdirAll(PathDir(EntryPath))
    /\ UNCHANGED <<earchive, eimpl, rejected>>
    /\ UNCHANGED notExtractVars

\* After the last entry: return nil.
ExtractReturn ==
    /\ eret = "none"
    /\ eidx > Len(earchive)
    /\ eret' = "nil"
    /\ UNCHANGED <<earchive, eimpl, eidx, created, rejected, errored>>
    /\ UNCHANGED notExtractVars

NextExtract ==
    \/ OpenArchive
    \/ RejectEntry
    \/ ExtractDirEntry
    \/ ExtractFileEntry
    \/ OpenEntryFails
    \/ WriteEntryFails
    \/ ExtractReturn

SpecExtract == InitExtract /\ [][NextExtract]_vars

\* A clean path lies strictly inside a directory: its elements are those of the
\* directory followed by at least one more, none of them "..".
InsideDir(path, dir) ==
    LET pp == Parts(path)
        dp == Parts(dir)
    IN  /\ Len(pp) > Len(dp)
        /\ SubSeq(pp, 1, Len(dp)) = dp
        /\ \A i \in (Len(dp) + 1)..Len(pp) : pp[i] \notin {<<>>, <<".">>, <<".", ".">>}

\* C24: every path extraction creates lies strictly inside the extraction
\* directory, and every entry gone through whose joined path does not lie there
\* ended in an error: that of the path check, or in extractZipFile that of opening
\* the entry before the check; extractZip then returns the error.
C24_ZipSlipProtection ==
    /\ \A path \in created : InsideDir(path, ExtractDir)
    /\ \A i \in 1..Len(earchive) :
          (i < eidx /\ ~InsideDir(JoinPath(ExtractDir, earchive[i].name), ExtractDir)) =>
              /\ i \in errored
              /\ i \in rejected \/ eimpl = "unzipXMLs"
              /\ eimpl = "extractZip" => eret = "err"

\* unzipXMLs has rejected the entry ../xe/f and has gone on to extract the plain
\* file after it.
C24_Witness ==
    /\ eimpl = "unzipXMLs"
    /\ earchive[1].name = <<".", ".", "/", "x", "e">>
    /\ rejected = {1}
    /\ created = {<<"d", "/", "x", "/", "f">>}
    /\ eret = "nil"

(***************************************************************************)
(* Cells, ownership of shards and records, and the progress counter.       *)
(***************************************************************************)
\* Entry w of the root is one the loop of ParseXMLs starts a goroutine for.
Dispatchable(w) == ~MatchDotZip(root[w].name) /\ root[w].listable

\* C31: every cell of a row is computed from the values of one key of the record:
\* no value gives the empty string, one value gives that value, several values
\* give them concatenated in the order they were appended, with nothing between.
C31_CellRule ==
    \A w \in Workers :
        wpc[w] \in {"write", "flush", "unlock"} =>
            \E p \in KeyOrders(Record[w]) :
                /\ Len(row[w]) = Len(p)
                /\ \A i \in 1..Len(p) :
                      LET data == Record[w][p[i]]
                      IN  /\ Len(data) = 0 => row[w][i] = <<>>
                          /\ Len(data) = 1 => row[w][i] = data[1]
                          /\ Len(data) > 1 => row[w][i] = Concat(data)

\* A row is being written that has a cell made of two values and a cell for a key
\* of no value.
C31_Witness ==
    \E w \in Workers :
        /\ wpc[w] = "flush"
        /\ \E k1, k3 \in DOMAIN Record[w] :
              /\ Len(Record[w][k1]) > 1
              /\ Len(Record[w][k3]) = 0
              /\ \E i, j \in 1..Len(row[w]) :
                    /\ row[w][i] = Record[w][k1][1] \o Record[w][k1][2]
                    /\ row[w][j] = <<>>

\* C32: every dispatched shard has exactly one goroutine, which is started once,
\* never started again, reads only the documents of its own shard, one at a time
\* and in one pass.
C32_OneWorkerPerShard ==
    /\ [](\A w \in Workers :
            /\ wpc[w] # "idle" => (w < idx /\ Dispatchable(w))
            /\ (w < idx /\ Dispatchable(w)) => wpc[w] # "idle"
            /\ wpc[w] \in {"token", "write", "flush", "unlock", "add"} =>
                  /\ fidx[w] \in 1..Len(root[w].files)
                  /\ Doc(w) = root[w].files[fidx[w]].tokens)
    /\ [][\A w \in Workers :
            /\ wpc[w] # "idle" => wpc'[w] # "idle"
            /\ wpc[w] = "exited" => (wpc'[w] = "exited" /\ fidx'[w] = fidx[w])
            /\ fidx'[w] >= fidx[w]]_vars

\* Two goroutines are reading documents at the same time, each in its own shard.
C32_Witness ==
    \E v, w \in Workers :
        /\ v # w
        /\ wpc[v] = "token" /\ pos[v] > 0
        /\ wpc[w] = "token" /\ pos[w] > 0
        /\ root[v].files # root[w].files

\* C33: the map of a goroutine changes only in a step of that goroutine (or when
\* the goroutine is started and makes it), such a step changes no other map, and
\* the row a goroutine builds is read from its own map.
C33_RecordIsNeverShared ==
    [][\A w \in Workers :
          /\ Record'[w] # Record[w] =>
                /\ \A v \in Workers \ {w} :
                      Record'[v] = Record[v] /\ pos'[v] = pos[v] /\ wpc'[v] = wpc[v]
                /\ \/ wpc[w] = "token" /\ pos'[w] = pos[w] + 1
                   \/ wpc[w] = "idle" /\ wpc'[w] = "files" /\ idx = w
          /\ (wpc[w] = "token" /\ wpc'[w] = "write") =>
                /\ row'[w] \in BuildRows(Record[w])
                /\ \A v \in Workers \ {w} : row'[v] = row[v]]_vars

\* Two goroutines are alive, each with values in its own map, and the maps differ.
C33_Witness ==
    \E v, w \in Workers :
        /\ v # w
        /\ wpc[v] = "token" /\ Record[v] # EmptyRecord
        /\ wpc[w] = "token" /\ Record[w] # EmptyRecord
        /\ Record[v] # Record[w]

\* C34: whenever no goroutine holds the lock of the sink, nothing that was written
\* without error waits in the buffer of the writer: what is in the buffer is at
\* most the one row whose write or flush failed.
C34_FlushedBeforeUnlock ==
    ~rwLocked =>
        \/ buf = <<>>
        \/ werr /\ Cardinality({i \in 1..Len(buf) : buf[i].k = "nl"}) <= 1

\* The lock is free after a goroutine wrote and flushed a row, and other goroutines
\* are still at work.
C34_Witness ==
    /\ ~rwLocked
    /\ buf = <<>>
    /\ DataRows(out) # {}
    /\ \E w \in Workers : wpc[w] = "add"
    /\ \E w \in Workers : wpc[w] = "token"

\* The documents of the dispatched shards that open and parse.
GoodDocs ==
    UNION {{<<w, f>> : f \in {g \in 1..Len(root[w].files) : GoodDoc(w, g)}} :
              w \in {v \in Workers : Dispatchable(v)}}

\* C35: at the end of a run without a sink error the counter is the number of
\* documents that were flattened and written.
C35_CounterCountsDocuments ==
    (mpc = "returned" /\ LoopDone /\ ~werr) => myInt = Cardinality(GoodDocs)

\* C38: the lock of the sink is held only by a goroutine that is between building
\* a row and the end of its write and flush; once flatten has returned, by
\* whichever path, the lock is free.
C38_LockReleasedOnEveryPath ==
    rwLocked => \E w \in Workers : wpc[w] \in {"write", "flush", "unlock"}

\* A write failed in the row-writing section, flatten returned the error, the lock
\* is free and another goroutine is still reading.
C38_Witness ==
    /\ werr
    /\ ~rwLocked
    /\ \E w \in Workers : wpc[w] = "files" /\ fidx[w] > 1 /\ stack[w] = <<>>
    /\ \E w \in Workers : wpc[w] = "token"

\* C39 as stated: whenever no goroutine is in the row-writing section the counter is
\* the number of data rows flushed to the sink.
C39_CounterEqualsRowsAtQuiescence ==
    (\A w \in Workers : ~InWriteSection(w)) => myInt = Cardinality(DataRows(out))

\* C39 amended: whenever no goroutine is in the row-writing section, the data rows
\* flushed to the sink are those counted plus one for every goroutine that has
\* unlocked and not yet added; when ParseXMLs returns the two numbers are equal.
C39_CounterLagsByPendingAdds ==
    /\ (\A w \in Workers : ~InWriteSection(w)) =>
          Cardinality(DataRows(out)) =
              myInt + Cardinality({w \in Workers : wpc[w] = "add"})
    /\ mpc = "returned" => myInt = Cardinality(DataRows(out))

\* No goroutine is in the row-writing section, one has unlocked and not yet added,
\* and the sink holds one data row more than the counter says.
C39_Witness ==
    /\ \A w \in Workers : ~InWriteSection(w)
    /\ \E w \in Workers : wpc[w] = "add"
    /\ Cardinality(DataRows(out)) = myInt + 1

(***************************************************************************)
(* Cancellation of httpGetWithRetry.                                       *)
(***************************************************************************)
\* C37: when the select of a backoff delay goes on while ctx is done and the delay
\* has not passed, the call returns the error of ctx and sends no request; once the
\* call has returned no request is sent.
C37_CancelledInBackoffReturns ==
    [][/\ (hpc = "select" /\ ctxDone /\ ~timerReady /\ hpc' # "select") =>
            (hpc' = "returned" /\ hret' = "ctx" /\ responses' = responses)
       /\ hpc = "returned" => responses' = responses]_vars

\* The call was cancelled in its second backoff delay, before that delay had passed:
\* two requests were made, one delay was waited out, and the error of ctx is
\* returned.
C37_Witness ==
    /\ hpc = "returned"
    /\ hret = "ctx"
    /\ Len(responses) = 2
    /\ Len(waits) = 1
    /\ ~timerReady

(***************************************************************************)
(* confirmation(s, tries).                                                 *)
(***************************************************************************)
MaxTries == 2
MaxLineLen == 2
MaxLines == 2

\* The characters of an answer; every line on os.Stdin ends with "\n".  What follows
\* the last "\n" is returned by ReadString together with io.EOF and is dropped.
InputChars == {"y", "Y", "n", " ", "\r"}
InputLines == UNION {[1..n -> InputChars] : n \in 0..MaxLineLen}
Stdins == UNION {[1..n -> InputLines] : n \in 0..MaxLines}

\* strings.ToLower
ToLower(str) == [i \in 1..Len(str) |-> IF str[i] = "Y" THEN "y" ELSE str[i]]

notConfirmVars == <<myInt, pipelineVars, progressVars, httpVars, downloadVars,
                    extractVars, unzipVars>>

InitConfirm ==
    /\ PipelineAtRest
    /\ myInt = 0
    /\ ProgressIdle
    /\ HttpIdle
    /\ DownloadIdle
    /\ ExtractIdle
    /\ UnzipIdle
    /\ cin \in Stdins
    /\ ctries \in 0..MaxTries
    /\ cturn = 0
    /\ cpc = "loop"
    /\ cret = "none"

ConfirmReturn(r) == cpc' = "returned" /\ cret' = r

\* res, err := r.ReadString('\n') in the turn of the loop that begins
NextLine == Append(cin[cturn + 1], "\n")

\* tries > 0 is false: return false, nil
ConfirmGivesUp ==
    /\ cpc = "loop"
    /\ ctries - cturn <= 0
    /\ ConfirmReturn("false")
    /\ UNCHANGED <<cin, ctries, cturn>>
    /\ UNCHANGED notConfirmVars

\* The prompt is printed and ReadString meets the end of os.Stdin: return the error.
ConfirmReadFails ==
    /\ cpc = "loop"
    /\ ctries - cturn > 0
    /\ cturn + 1 > Len(cin)
    /\ cturn' = cturn + 1
    /\ ConfirmReturn("err")
    /\ UNCHANGED <<cin, ctries>>
    /\ UNCHANGED notConfirmVars

\* The prompt is printed and the line read is "\n": continue, with tries--.
ConfirmEmptyLine ==
    /\ cpc = "loop"
    /\ ctries - cturn > 0
    /\ cturn + 1 <= Len(cin)
    /\ Len(NextLine) < 2
    /\ cturn' = cturn + 1
    /\ UNCHANGED <<cin, ctries, cpc, cret>>
    /\ UNCHANGED notConfirmVars

\* The prompt is printed and a longer line is read:
\* return strings.ToLower(strings.TrimSpace(res))[0] == 'y', nil.  Indexing the
\* empty string panics.
ConfirmAnswer ==
    /\ cpc = "loop"
    /\ ctries - cturn > 0
    /\ cturn + 1 <= Len(cin)
    /\ Len(NextLine) >= 2
    /\ cturn' = cturn + 1
    /\ LET answer == ToLower(TrimSpace(NextLine))
       IN  IF answer = <<>> THEN ConfirmReturn("panic")
           ELSE IF answer[1] = "y" THEN ConfirmReturn("true")
           ELSE ConfirmReturn("false")
    /\ UNCHANGED <<cin, ctries>>
    /\ UNCHANGED notConfirmVars

NextConfirm ==
    \/ ConfirmGivesUp
    \/ ConfirmReadFails
    \/ ConfirmEmptyLine
    \/ ConfirmAnswer

SpecConfirm == InitConfirm /\ [][NextConfirm]_vars

\* The lines among the first tries lines of os.Stdin that are not just "\n".
Answers == {i \in 1..Min(ctries, Len(cin)) : cin[i] # <<>>}

\* C40: confirmation prompts at most tries times, never crashes, returns true
\* exactly when the first line that is not empty begins, once trimmed, with y or
\* Y, and returns false when all tries lines are empty.
C40_ConfirmationContract ==
    cpc = "returned" =>
        /\ cturn <= ctries
        /\ cret # "panic"
        /\ cret = "true" <=>
              \E i \in Answers :
                  /\ \A j \in Answers : i <= j
                  /\ TrimSpace(cin[i]) # <<>>
                  /\ TrimSpace(cin[i])[1] \in {"y", "Y"}
        /\ (ctries <= Len(cin) /\ Answers = {}) => cret = "false"

(***************************************************************************)
(* The unzip command: ExtractAllZips and extractZip.                       *)
(***************************************************************************)
MaxRuns == 2

\* The archives of ./data/990_zips/, by their names without ".zip", and the number
\* of entries of each.
ZipArchives == <<"a", "b">>
EntryCount(a) == IF a = "a" THEN 2 ELSE 1

notUnzipVars == <<myInt, pipelineVars, progressVars, httpVars, downloadVars,
                  extractVars, confirmVars>>

InitUnzip ==
    /\ PipelineAtRest
    /\ myInt = 0
    /\ ProgressIdle
    /\ HttpIdle
    /\ DownloadIdle
    /\ ExtractIdle
    /\ ConfirmIdle
    /\ zdirs = [i \in 1..Len(ZipArchives) |-> [exists |-> FALSE, files |-> {}]]
    /\ zpc = "idle"
    /\ zidx = 1
    /\ zentry = 1
    /\ zskipped = {}
    /\ zruns = 0

\* extractZip returned an error, or nil: the loop of ExtractAllZips goes on.
NextZip == zpc' = "loop" /\ zidx' = zidx + 1

\* ./theIRS unzip is started: os.ReadDir(zipDir), which may fail.
StartExtractAll ==
    /\ zpc = "idle"
    /\ zruns < MaxRuns
    /\ zruns' = zruns + 1
    /\ zskipped' = {}
    /\ zidx' = 1
    /\ \/ zpc' = "loop"
       \/ zpc' = "idle"
    /\ UNCHANGED <<zdirs, zentry>>
    /\ UNCHANGED notUnzipVars

\* One archive of the listing: the check for "already extracted" (the directory
\* exists and has entries); after the last archive the command returns nil.
CheckExtracted ==
    /\ zpc = "loop"
    /\ IF zidx > Len(ZipArchives)
       THEN zpc' = "idle" /\ UNCHANGED <<zidx, zskipped>>
       ELSE IF zdirs[zidx].exists /\ zdirs[zidx].files # {}
       THEN zskipped' = zskipped \cup {zidx} /\ zidx' = zidx + 1 /\ zpc' = zpc
       ELSE zpc' = "open" /\ UNCHANGED <<zidx, zskipped>>
    /\ UNCHANGED <<zdirs, zentry, zruns>>
    /\ UNCHANGED notUnzipVars

\* extractZip: zip.OpenReader and os.MkdirAll(extractDir), either of which may fail.
OpenZip ==
    /\ zpc = "open"
    /\ \/ NextZip /\ UNCHANGED <<zdirs, zentry>>
       \/ /\ zdirs' = [zdirs EXCEPT ![zidx].exists = TRUE]
          /\ zentry' = 1
          /\ zpc' = "entry"
          /\ zidx' = zidx
    /\ UNCHANGED <<zskipped, zruns>>
    /\ UNCHANGED notUnzipVars

\* extractZip: one entry is written, or an error ends the extraction of the
\* archive; after the last entry extractZip returns nil.
ExtractEntry ==
    /\ zpc = "entry"
    /\ IF zentry > EntryCount(ZipArchives[zidx])
       THEN NextZip /\ UNCHANGED <<zdirs, zentry>>
       ELSE \/ /\ zdirs' = [zdirs EXCEPT ![zidx].files = @ \cup {zentry}]
               /\ zentry' = zentry + 1
               /\ UNCHANGED <<zpc, zidx>>
            \/ NextZip /\ UNCHANGED <<zdirs, zentry>>
    /\ UNCHANGED <<zskipped, zruns>>
    /\ UNCHANGED notUnzipVars

\* The command is interrupted: the process ends where it is.
InterruptUnzip ==
    /\ zpc # "idle"
    /\ zpc' = "idle"
    /\ UNCHANGED <<zdirs, zidx, zentry, zskipped, zruns>>
    /\ UNCHANGED notUnzipVars

NextUnzip ==
    \/ StartExtractAll
    \/ CheckExtracted
    \/ OpenZip
    \/ ExtractEntry
    \/ InterruptUnzip

SpecUnzip == InitUnzip /\ [][NextUnzip]_vars

\* C36: an archive is skipped by the unzip command only when every one of its
\* entries is present in its directory, so that a run after an interrupted or
\* failed extraction extracts the archive again.
C36_SkippedOnlyWhenFullyExtracted ==
    \A i \in zskipped : zdirs[i].files = 1..EntryCount(ZipArchives[i])

====
